---------------------------- MODULE Spec2Model ----------------------------
(***************************************************************************)
(* Message delivery plane of cursorIM: connection handlers, the local      *)
(* session table, the Redis routing registry, the cross-node bus and the   *)
(* offline store, as implemented by OptimizedConnectionManager (the        *)
(* manager cmd/main.go starts) and RedisConnectionManager.                 *)
(***************************************************************************)
EXTENDS Integers, Sequences, FiniteSets, TLC

None == "none"

Nodes == {"n1", "n2"}
Users == {"u1", "u2"}

ConnectionTypeWebSocket == "websocket"
ConnectionTypeTCP == "tcp"
ConnectionTypeTCPWS == "tcp_ws"

(* Bounds of the model.  QueueCap and SendCap stand for the capacities of   *)
(* messageQueueChan (1000) and of a connection's send channel (256).        *)
MaxMsgs == 2
QueueCap == 1
SendCap == 1

(* The last second of the servers' clock.                                  *)
MaxClock == 2

(* Messages created in a run that follows status broadcasts only.          *)
MaxStatus == MaxMsgs + 1

(* The expiry of user_registry:{user}, in heartbeat periods: 5 minutes with *)
(* a heartbeat every minute.                                               *)
RegistryTTL == 5

VARIABLES
    cfg,          \* the deployment: clients, friendships, Redis availability
    up,           \* node -> the process is running
    now,          \* the servers' clock, time.Now().Unix()
    codec,        \* a message on its way through the MessageAdapter
    conn,         \* the calls in progress on a connection's channels
    rx,           \* the frame a read loop took last and what came of it
    auth,         \* slot -> the last authentication of its client
    timer,        \* slot -> its read deadline and ping ticker, in seconds left
    busy,         \* the handler that runs without interleaving, or None
    hpc,          \* slot -> position of its connection handler
    send,         \* slot -> the connection's send channel
    done,         \* slot -> the connection's done channel is closed
    connections,  \* node -> the connections of m.connections
    localUsers,   \* node -> UserConnectionRegistry.localUsers
    online,       \* node -> users the status manager holds as online
    registry,     \* user -> ServerID stored under user_registry:{user}
    serverUsers,  \* node -> members of server_users:{node}
    bus,          \* node -> payloads delivered to the node's subscription
    ttl,          \* user -> minutes until user_registry:{user} expires
    beat,         \* nodes whose heartbeat ticker fired in the current minute
    msgs,         \* the messages created so far; a message's id is its index
    queue,        \* node -> messageQueueChan
    notify,       \* node -> MessageService.notifyChannel
    db,           \* message id -> status of its row in table messages
    pending,      \* node -> users whose sendOfflineMessages goroutine waits
    history,      \* ids of the rows of private_messages, in the order written
    accepted,     \* message id -> result of the handler's SendMessage call
    outcome,      \* message id -> kinds of delivery observed
    published,    \* message id -> channels it was published on, in order
    sentTo,       \* message id -> slots whose SendMessage took it
    viaBus,       \* message id -> nodes whose listener queued it
    events,       \* message id -> what else happened to it on its way
    replayFailed, \* message ids whose replay SendMessage returned an error
    storeFailed   \* message ids whose storeOfflineMessage returned an error

envVars == <<cfg, up, now, codec, conn, rx, auth, timer>>
sessVars == <<hpc, send, done>>
tableVars == <<connections, localUsers, online>>
redisVars == <<registry, serverUsers, bus, ttl, beat>>
msgVars == <<msgs, queue, notify, db, pending, history>>
ghostVars == <<accepted, outcome, published, sentTo, viaBus, events, replayFailed, storeFailed>>
vars == <<envVars, busy, sessVars, tableVars, redisVars, msgVars, ghostVars>>

Slots == DOMAIN cfg.slots
userOf(s) == cfg.slots[s].user
nodeOf(s) == cfg.slots[s].node
MsgIds == 1..MaxStatus

(* Connection.GetConnectionType; a type and a connection id are both keys   *)
(* of one kind (strings in the source), so a key is a tuple here.           *)
GetConnectionType(s) == <<cfg.slots[s].ctype>>

(* connID := fmt.Sprintf("%s_%s_%d", userID, connType, time.Now().UnixNano()) *)
ConnID(s) == <<cfg.slots[s].user, cfg.slots[s].ctype, s>>

redisEnabled(n) == cfg.redis[n]

IsBinary(s) == cfg.slots[s].ctype \in {ConnectionTypeTCPWS, ConnectionTypeTCP}

(* A table that is not keyed by user: every connection of the node.        *)
AnyConns(n, u) == connections[n]

(* m.connections[userID] *)
UserConns(n, u) == {x \in connections[n] : userOf(x) = u}

Optimized == cfg.mgr = "optimized"

(* The records a message is made of: the fields routing reads.              *)
Msg(t, from, to, src, ts) ==
    [type |-> t, sender |-> from, rcpt |-> to, origin |-> src, timestamp |-> ts]

(***************************************************************************)
(* UserConnectionRegistry                                                  *)
(***************************************************************************)
IsUserLocal(n, u) == u \in localUsers[n]

(* FindUserServer: the local set first, then GET user_registry:{user}.      *)
(* redisOK = FALSE is a failed GET; the result is a ServerID or None.       *)
FindUserServer(n, u, redisOK) ==
    IF u \in localUsers[n] THEN n
    ELSE IF redisOK THEN registry[u]
    ELSE None

(* A node receives what is published on its channel while it runs with      *)
(* Redis enabled: Run starts the listener only then.                        *)
Subscribed(n) == up[n] /\ redisEnabled(n)

(***************************************************************************)
(* Connections                                                             *)
(***************************************************************************)
(* EnhancedWebSocketConnection.SendMessage / EnhancedTCPConnection.SendMessage *)
ConnSendMessage(s) ==
    IF done[s] THEN "closed"
    ELSE IF Len(send[s]) < cfg.scap THEN "ok"
    ELSE "full"

(* The connections UnregisterConnection(userID, key) removes and closes.    *)
Matching(n, u, key) == {x \in UserConns(n, u) : GetConnectionType(x) = key}

(***************************************************************************)
(* The router's effect on the stores, as a record the actions commit.      *)
(***************************************************************************)
Router ==
    [queue |-> queue, bus |-> bus, db |-> db, history |-> history, outcome |-> outcome,
     published |-> published, events |-> events, storeFailed |-> storeFailed,
     res |-> "ok"]

Commit(r) ==
    /\ queue' = r.queue
    /\ bus' = r.bus
    /\ db' = r.db
    /\ history' = r.history
    /\ outcome' = r.outcome
    /\ published' = r.published
    /\ events' = r.events
    /\ storeFailed' = r.storeFailed

(* OptimizedConnectionManager.storeOfflineMessage: an empty body, returns nil. *)
OptStoreOfflineMessage(r, i) == [r EXCEPT !.res = "ok"]

(* RedisConnectionManager.storeOfflineMessage: Status = "unsent", then an   *)
(* INSERT into table messages, whose primary key is the message id.         *)
StoreOfflineMessage(r, i, dbOK) ==
    IF dbOK /\ r.db[i] = None
    THEN [r EXCEPT !.db[i] = "unsent", !.outcome[i] = @ \cup {"offline"}, !.res = "ok"]
    ELSE [r EXCEPT !.storeFailed = @ \cup {i}, !.res = "err"]

(* A publish that goes to every node's channel instead of the target's.     *)
sendToEveryServer(r, i, target, pubOK) ==
    [r EXCEPT !.bus = [k \in Nodes |-> IF Subscribed(k) THEN Append(r.bus[k], i) ELSE r.bus[k]],
              !.published[i] = Append(@, target),
              !.outcome[i] = @ \cup {"publish"},
              !.res = "ok"]

(* OptimizedConnectionManager.sendToTargetServer: PUBLISH server_msg:{target}. *)
sendToTargetServer(r, i, target, pubOK) ==
    IF pubOK
    THEN [r EXCEPT !.bus[target] = IF Subscribed(target) THEN Append(@, i) ELSE @,
                   !.published[i] = Append(@, target),
                   !.outcome[i] = @ \cup {"publish"},
                   !.events[i] = IF Subscribed(target) THEN @ ELSE @ \cup {"nosub"},
                   !.res = "ok"]
    ELSE OptStoreOfflineMessage(r, i)

(* A SendMessage that puts a local user's message at the head of the queue. *)
OptSendMessageAtHead(r, n, i, to, redisOK, pubOK) ==
    IF IsUserLocal(n, to)
    THEN IF Len(r.queue[n]) < cfg.qcap
         THEN [r EXCEPT !.queue[n] = <<i>> \o @, !.res = "ok"]
         ELSE [r EXCEPT !.res = "err"]
    ELSE IF ~redisEnabled(n) THEN OptStoreOfflineMessage(r, i)
    ELSE IF FindUserServer(n, to, redisOK) = None THEN OptStoreOfflineMessage(r, i)
    ELSE sendToTargetServer(r, i, FindUserServer(n, to, redisOK), pubOK)

(* A SendMessage that publishes a second time after a publish.             *)
OptSendMessageTwice(r, n, i, to, redisOK, pubOK) ==
    IF IsUserLocal(n, to)
    THEN IF Len(r.queue[n]) < cfg.qcap
         THEN [r EXCEPT !.queue[n] = Append(@, i), !.res = "ok"]
         ELSE [r EXCEPT !.res = "err"]
    ELSE IF ~redisEnabled(n) THEN OptStoreOfflineMessage(r, i)
    ELSE IF FindUserServer(n, to, redisOK) = None
         THEN OptStoreOfflineMessage(
                  [r EXCEPT !.events[i] = IF redisOK THEN @ ELSE @ \cup {"lookupFailed"}], i)
    ELSE sendToTargetServer(
             sendToTargetServer(r, i, FindUserServer(n, to, redisOK), pubOK),
             i, FindUserServer(n, to, redisOK), pubOK)

(* OptimizedConnectionManager.SendMessage *)
OptSendMessage(r, n, i, to, redisOK, pubOK) ==
    IF IsUserLocal(n, to)
    THEN IF Len(r.queue[n]) < cfg.qcap
         THEN [r EXCEPT !.queue[n] = Append(@, i), !.res = "ok"]
         ELSE [r EXCEPT !.res = "err"]
    ELSE IF ~redisEnabled(n) THEN OptStoreOfflineMessage(r, i)
    ELSE IF FindUserServer(n, to, redisOK) = None
         THEN OptStoreOfflineMessage(
                  [r EXCEPT !.events[i] = IF redisOK THEN @ ELSE @ \cup {"lookupFailed"}], i)
    ELSE sendToTargetServer(r, i, FindUserServer(n, to, redisOK), pubOK)

(* What SendMessage reads from message.HandledByLocal after it queued the   *)
(* message: processMessage sets the field from the worker's goroutine with  *)
(* no synchronisation, and the worker can have taken the message only if    *)
(* nothing was queued before it.                                           *)
HandledByLocal(n) ==
    IF ~Optimized /\ redisEnabled(n) /\ queue[n] = <<>> THEN BOOLEAN ELSE {FALSE}

(* RedisConnectionManager.SendMessage: the local queue, then, unless the    *)
(* message reads as handled, PUBLISH message_to:{recipient}, which every    *)
(* node's pattern subscription gets.                                       *)
RedisSendMessage(r, n, i, to, handled) ==
    IF Len(r.queue[n]) >= cfg.qcap THEN [r EXCEPT !.res = "err"]
    ELSE LET q == [r EXCEPT !.queue[n] = Append(@, i), !.res = "ok"] IN
         IF redisEnabled(n) /\ ~handled
         THEN [q EXCEPT !.bus = [k \in Nodes |->
                                   IF Subscribed(k) THEN Append(q.bus[k], i) ELSE q.bus[k]],
                        !.published[i] = Append(@, to)]
         ELSE q

SendMessage(r, n, i, to, redisOK, pubOK, handled) ==
    IF Optimized THEN OptSendMessage(r, n, i, to, redisOK, pubOK)
    ELSE RedisSendMessage(r, n, i, to, handled)

(***************************************************************************)
(* Initial state: every process constructed, nobody connected.             *)
(***************************************************************************)
(* The goroutines that use a connection's channels: the two callers of      *)
(* Close that can run at once (StartReading's deferred call; the manager's  *)
(* UnregisterConnection or Close), one caller of SendMessage, StartWriting. *)
Closers == {"reader", "manager"}

(* A connection as its constructor leaves it: no call in progress, the send *)
(* channel open, nothing returned, no panic.                               *)
NoCalls ==
    [closing |-> [k \in Closers |-> "idle"], sending |-> "idle", arg |-> 0,
     writing |-> TRUE, closes |-> [done |-> 0, send |-> 0], ret |-> None,
     panic |-> None]

(* No frame has been read.                                                 *)
NoFrame == [stage |-> "idle"]

(* A token as ValidateToken sees it: the user_id claim and whether the      *)
(* string parses, carries the server's signature and has not expired.       *)
NoToken == [user |-> "", state |-> "empty"]

(* A client that has not tried to authenticate.                            *)
NoAttempt ==
    [cred |-> [line |-> "none", token |-> NoToken], user |-> None, reply |-> None,
     closed |-> FALSE]

(* The timeouts of a connection, in seconds.                               *)
PongWait == 60
PingPeriod == (PongWait * 9) \div 10

(* The read deadline a read loop sets: EnhancedWebSocketConnection sets     *)
(* now + PongWait * 2, EnhancedTCPConnection now + PongWait.                *)
ReadWait(ctype) == IF ctype = ConnectionTypeTCP THEN PongWait ELSE PongWait * 2

(* The timers of a connection whose loops start: the read deadline set, the *)
(* ticker of StartWriting started; no ping is unanswered, and idle is the   *)
(* time since the client's last frame, counted up to PongWait.             *)
Armed(ctype) ==
    [read |-> ReadWait(ctype), ping |-> PingPeriod, owed |-> FALSE, idle |-> 0]

InitFrom(c, inputs) ==
    /\ cfg = c
    /\ codec \in inputs
    /\ conn = NoCalls
    /\ rx = NoFrame
    /\ auth = [s \in DOMAIN c.slots |-> NoAttempt]
    /\ timer = [s \in DOMAIN c.slots |-> Armed(c.slots[s].ctype)]
    /\ up = [n \in Nodes |-> TRUE]
    /\ now = 1
    /\ busy = None
    /\ hpc = [s \in DOMAIN c.slots |-> "idle"]
    /\ send = [s \in DOMAIN c.slots |-> <<>>]
    /\ done = [s \in DOMAIN c.slots |-> FALSE]
    /\ connections = [n \in Nodes |-> {}]
    /\ localUsers = [n \in Nodes |-> {}]
    /\ online = [n \in Nodes |-> {}]
    /\ registry = [u \in Users |-> None]
    /\ serverUsers = [n \in Nodes |-> {}]
    /\ bus = [n \in Nodes |-> <<>>]
    /\ ttl = [u \in Users |-> 0]
    /\ beat = {}
    /\ msgs = <<>>
    /\ queue = [n \in Nodes |-> <<>>]
    /\ notify = [n \in Nodes |-> <<>>]
    /\ db = [i \in MsgIds |-> None]
    /\ pending = [n \in Nodes |-> {}]
    /\ history = <<>>
    /\ accepted = [i \in MsgIds |-> None]
    /\ outcome = [i \in MsgIds |-> {}]
    /\ published = [i \in MsgIds |-> <<>>]
    /\ sentTo = [i \in MsgIds |-> {}]
    /\ viaBus = [i \in MsgIds |-> {}]
    /\ events = [i \in MsgIds |-> {}]
    /\ replayFailed = {}
    /\ storeFailed = {}

(* No message is with the adapter.                                         *)
NoCodec == [stage |-> "idle"]

InitWith(c) == InitFrom(c, {NoCodec})

(* Outcomes of a Redis or database call: failures only where the deployment *)
(* has them.                                                               *)
Outcomes == IF cfg.flaky THEN BOOLEAN ELSE {TRUE}

(* With cfg.fine a handler's steps interleave with everything else; without *)
(* it a handler runs from one resting position to the next undisturbed.     *)
Resting == {"idle", "run", "fin"}
Free(s) == busy \in {None, s}
Quiet == busy = None
Step(s, next) ==
    /\ hpc' = [hpc EXCEPT ![s] = next]
    /\ busy' = IF cfg.fine \/ next \in Resting THEN None ELSE s

(***************************************************************************)
(* handleEnhancedAuthenticatedConnection                                   *)
(***************************************************************************)
(* MessageService.BroadcastStatus: one status message per friend, onto      *)
(* notifyChannel.                                                          *)
StatusCopies(u) == cfg.friends[u]

RECURSIVE StatusMsgs(_, _, _)
StatusMsgs(u, n, fs) ==
    IF fs = {} THEN <<>>
    ELSE LET f == CHOOSE x \in fs : TRUE IN
         <<Msg("status", u, f, n, now)>> \o StatusMsgs(u, n, fs \ {f})

(* sendUserStatusUpdate: the new messages and the notifyChannel after it.   *)
BroadcastStatus(u, n) ==
    /\ Len(msgs) + Cardinality(StatusCopies(u)) <= cfg.cap
    /\ msgs' = msgs \o StatusMsgs(u, n, StatusCopies(u))
    /\ notify' = [notify EXCEPT ![n] =
                    @ \o [k \in 1..Cardinality(StatusCopies(u)) |-> Len(msgs) + k]]

(* An authenticated client's handler starts.                               *)
Connect(s) ==
    /\ hpc[s] = "idle"
    /\ up[nodeOf(s)]
    /\ Quiet
    /\ Step(s, IF IsBinary(s) THEN "arbA" ELSE "regA")
    /\ UNCHANGED <<envVars, send, done, tableVars, redisVars, msgVars, ghostVars>>

(* The key UnregisterConnection is called with: "websocket" by the          *)
(* arbitration of a binary connection, the own type by the deferred call.   *)
UnregKey(s) ==
    IF hpc[s] \in {"arbA", "arbB", "arbC", "arbD"}
    THEN <<ConnectionTypeWebSocket>> ELSE GetConnectionType(s)

InArb(s) == hpc[s] \in {"arbA", "arbB", "arbC", "arbD"}

(* An UnregisterConnection that closes the connections of the type but      *)
(* leaves them in the table.                                               *)
UnregisterCloseOnly(s) ==
    /\ hpc[s] \in {"arbA", "unrA"}
    /\ Free(s)
    /\ LET n == nodeOf(s)
           rem == Matching(n, userOf(s), UnregKey(s))
       IN /\ done' = [x \in Slots |-> done[x] \/ x \in rem]
          /\ Step(s, IF Optimized /\ redisEnabled(n)
                     THEN (IF InArb(s) THEN "arbB" ELSE "unrB")
                     ELSE (IF InArb(s) THEN "arbD" ELSE "unrD"))
    /\ UNCHANGED <<envVars, send, tableVars, redisVars, msgVars, ghostVars>>

(* UnregisterConnection, part 1: under the lock remove the connections of   *)
(* the type; then close them.                                              *)
UnregisterRemove(s) ==
    /\ hpc[s] \in {"arbA", "unrA"}
    /\ Free(s)
    /\ LET n == nodeOf(s)
           rem == Matching(n, userOf(s), UnregKey(s))
       IN /\ connections' = [connections EXCEPT ![n] = @ \ rem]
          /\ done' = [x \in Slots |-> done[x] \/ x \in rem]
          /\ Step(s, IF Optimized /\ redisEnabled(n)
                     THEN (IF InArb(s) THEN "arbB" ELSE "unrB")
                     ELSE (IF InArb(s) THEN "arbD" ELSE "unrD"))
    /\ UNCHANGED <<envVars, send, localUsers, online, redisVars, msgVars, ghostVars>>

(* UnregisterConnection, part 2: hasOtherConns, read under the read lock.   *)
UnregisterCheck(s) ==
    /\ hpc[s] \in {"arbB", "unrB"}
    /\ Free(s)
    /\ Step(s, IF UserConns(nodeOf(s), userOf(s)) = {}
               THEN (IF InArb(s) THEN "arbC" ELSE "unrC")
               ELSE (IF InArb(s) THEN "arbD" ELSE "unrD"))
    /\ UNCHANGED <<envVars, send, done, tableVars, redisVars, msgVars, ghostVars>>

(* An UnregisterUser that forgets the user locally and leaves the key.      *)
UnregisterUserLocalOnly(s) ==
    /\ hpc[s] \in {"arbC", "unrC"}
    /\ Free(s)
    /\ LET n == nodeOf(s)
           u == userOf(s)
       IN /\ localUsers' = [localUsers EXCEPT ![n] = @ \ {u}]
          /\ serverUsers' = [serverUsers EXCEPT ![n] = @ \ {u}]
    /\ Step(s, IF InArb(s) THEN "arbD" ELSE "unrD")
    /\ UNCHANGED <<envVars, send, done, connections, online, registry, ttl, bus, beat,
                   msgVars, ghostVars>>

(* UserConnectionRegistry.UnregisterUser *)
UnregisterUser(s) ==
    /\ hpc[s] \in {"arbC", "unrC"}
    /\ Free(s)
    /\ LET n == nodeOf(s)
           u == userOf(s)
       IN /\ localUsers' = [localUsers EXCEPT ![n] = @ \ {u}]
          /\ registry' = [registry EXCEPT ![u] = None]
          /\ ttl' = [ttl EXCEPT ![u] = 0]
          /\ serverUsers' = [serverUsers EXCEPT ![n] = @ \ {u}]
    /\ Step(s, IF InArb(s) THEN "arbD" ELSE "unrD")
    /\ UNCHANGED <<envVars, send, done, connections, online, bus, beat, msgVars, ghostVars>>

(* UnregisterConnection, part 3: the status manager's offline update.       *)
UnregisterStatus(s) ==
    /\ hpc[s] \in {"arbD", "unrD"}
    /\ Free(s)
    /\ LET n == nodeOf(s)
           u == userOf(s)
       IN online' = [online EXCEPT ![n] = IF UserConns(n, u) = {} THEN @ \ {u} ELSE @]
    /\ Step(s, IF InArb(s) THEN "regA" ELSE "fin")
    /\ UNCHANGED <<envVars, send, done, connections, localUsers, redisVars, msgVars, ghostVars>>

(* RegisterConnection, part 1: the connection enters m.connections.         *)
RegisterConnection(s) ==
    /\ hpc[s] = "regA"
    /\ Free(s)
    /\ connections' = [connections EXCEPT ![nodeOf(s)] = @ \cup {s}]
    /\ Step(s, "regB")
    /\ UNCHANGED <<envVars, send, done, localUsers, online, redisVars, msgVars, ghostVars>>

(* RegisterConnection, part 2: RegisterUser (with Redis enabled; a failed   *)
(* SET leaves localUsers set), the status update, the replay goroutine,     *)
(* and the handler's online broadcast.                                     *)
RegisterUser(s) ==
    /\ hpc[s] = "regB"
    /\ Free(s)
    /\ LET n == nodeOf(s)
           u == userOf(s)
       IN /\ \E redisOK \in Outcomes :
               IF Optimized /\ redisEnabled(n)
               THEN /\ localUsers' = [localUsers EXCEPT ![n] = @ \cup {u}]
                    /\ registry' = [registry EXCEPT ![u] = IF redisOK THEN n ELSE @]
                    /\ serverUsers' = [serverUsers EXCEPT ![n] = IF redisOK THEN @ \cup {u} ELSE @]
                    /\ ttl' = [ttl EXCEPT ![u] = IF redisOK THEN RegistryTTL ELSE @]
               ELSE UNCHANGED <<localUsers, registry, serverUsers, ttl>>
          /\ online' = [online EXCEPT ![n] = @ \cup {u}]
          /\ pending' = [pending EXCEPT ![n] = IF Optimized THEN @ ELSE @ \cup {u}]
          /\ BroadcastStatus(u, n)
    /\ Step(s, "run")
    /\ UNCHANGED <<envVars, send, done, connections, bus, beat, queue, db, history, ghostVars>>

(* The read loop ends (client gone, read error, read deadline): its         *)
(* deferred Close fires the done channel.                                  *)
ReadLoopExit(s) ==
    /\ hpc[s] = "run"
    /\ ~done[s]
    /\ Quiet
    /\ done' = [done EXCEPT ![s] = TRUE]
    /\ UNCHANGED <<envVars, busy, hpc, send, tableVars, redisVars, msgVars, ghostVars>>

(* The handler wakes on the done channel and broadcasts the offline status; *)
(* its deferred UnregisterConnection comes next.                           *)
HandlerWakes(s) ==
    /\ hpc[s] = "run"
    /\ done[s]
    /\ Quiet
    /\ BroadcastStatus(userOf(s), nodeOf(s))
    /\ Step(s, "unrA")
    /\ UNCHANGED <<envVars, send, done, tableVars, redisVars, queue, db, pending, history, ghostVars>>

(* StartWriting takes the next message off the send channel.               *)
StartWriting(s) ==
    /\ hpc[s] = "run"
    /\ ~done[s]
    /\ Quiet
    /\ send[s] # <<>>
    /\ send' = [send EXCEPT ![s] = Tail(@)]
    /\ UNCHANGED <<envVars, busy, hpc, done, tableVars, redisVars, msgVars, ghostVars>>

(***************************************************************************)
(* Routing                                                                 *)
(***************************************************************************)
(* History: whether the recipient has an open connection in the node's     *)
(* table at the moment the message is handed to SendMessage.                *)
Noted(r, n, i, to) ==
    IF \E x \in UserConns(n, to) : ~done[x]
    THEN [r EXCEPT !.events[i] = @ \cup {"hadLocal"}]
    ELSE r

(* A SaveMessage whose error the handler does not see.                     *)
SaveMessageUnchecked(r, i, dbOK) ==
    IF dbOK /\ r.db[i] = None
    THEN [r EXCEPT !.db[i] = "sent", !.history = Append(@, i), !.res = "ok"]
    ELSE [r EXCEPT !.res = "ok"]

(* MessageService.SaveMessage / savePrivateMessage: a row with the default  *)
(* status "sent", keyed by the message id.                                 *)
SaveMessage(r, i, dbOK) ==
    IF dbOK /\ r.db[i] = None
    THEN [r EXCEPT !.db[i] = "sent", !.history = Append(@, i), !.res = "ok"]
    ELSE [r EXCEPT !.res = "err"]

(* handleEnhancedMessage, default branch: a chat message read from the      *)
(* connection is saved and, if that worked, handed to SendMessage.  The     *)
(* caller (the read loop's callback) drops the returned error.             *)
HandleChatMessage(s, to) ==
    /\ hpc[s] = "run"
    /\ ~done[s]
    /\ Quiet
    /\ Len(msgs) < cfg.cap
    /\ to \in cfg.rcpts
    /\ to # userOf(s)
    /\ LET i == Len(msgs) + 1
           n == nodeOf(s)
       IN /\ \E t \in cfg.stamps :
               msgs' = Append(msgs, Msg("text", userOf(s), to, n, IF t = 0 THEN now ELSE t))
          /\ \E dbOK, redisOK, pubOK \in Outcomes : \E handled \in HandledByLocal(n) :
               LET saved == SaveMessage(Noted(Router, n, i, to), i, dbOK)
                   r == IF saved.res = "ok"
                        THEN SendMessage(saved, n, i, to, redisOK, pubOK, handled)
                        ELSE saved
               IN /\ Commit(r)
                  /\ accepted' = [accepted EXCEPT ![i] =
                                    IF saved.res = "ok" THEN r.res ELSE @]
    /\ UNCHANGED <<envVars, busy, sessVars, tableVars, registry, serverUsers, ttl, beat,
                   notify, pending, sentTo, viaBus, replayFailed>>

(* MessageService.processNotifications: the next notification goes to       *)
(* SendMessage; an error is logged.                                        *)
processNotifications(n) ==
    /\ up[n]
    /\ Quiet
    /\ notify[n] # <<>>
    /\ LET i == Head(notify[n]) IN
       \E redisOK, pubOK \in Outcomes : \E handled \in HandledByLocal(n) :
          LET r == SendMessage(Noted(Router, n, i, msgs[i].rcpt), n, i, msgs[i].rcpt,
                               redisOK, pubOK, handled)
          IN /\ Commit(r)
             /\ accepted' = [accepted EXCEPT ![i] = r.res]
    /\ notify' = [notify EXCEPT ![n] = Tail(@)]
    /\ UNCHANGED <<envVars, busy, sessVars, tableVars, registry, serverUsers, ttl, beat,
                   msgs, pending, sentTo, viaBus, replayFailed>>

(* The key `for connType, conn := range userConns` yields for a connection: *)
(* userConns maps connection ids to connections.                           *)
RangeKey(x) == ConnID(x)

(* UnregisterConnection(u, key) for every key of keys, run to its end.      *)
UnregisterAll(n, u, keys) ==
    LET rem == UNION {Matching(n, u, k) : k \in keys}
        gone == keys # {} /\ UserConns(n, u) \ rem = {}
        reg == gone /\ Optimized /\ redisEnabled(n)
    IN [connections |-> [connections EXCEPT ![n] = @ \ rem],
        done |-> [x \in Slots |-> done[x] \/ x \in rem],
        localUsers |-> [localUsers EXCEPT ![n] = IF reg THEN @ \ {u} ELSE @],
        registry |-> [registry EXCEPT ![u] = IF reg THEN None ELSE @],
        ttl |-> [ttl EXCEPT ![u] = IF reg THEN 0 ELSE @],
        serverUsers |-> [serverUsers EXCEPT ![n] = IF reg THEN @ \ {u} ELSE @],
        online |-> [online EXCEPT ![n] = IF gone THEN @ \ {u} ELSE @]]

CommitTable(t) ==
    /\ connections' = t.connections
    /\ done' = t.done
    /\ localUsers' = t.localUsers
    /\ registry' = t.registry
    /\ ttl' = t.ttl
    /\ serverUsers' = t.serverUsers
    /\ online' = t.online

(* The connections the first loop of RedisConnectionManager.processMessage  *)
(* tries: those whose range key equals ConnectionTypeTCP.                   *)
TcpFirst(cs) == {x \in cs : RangeKey(x) = <<ConnectionTypeTCP>>}

Takers(cs) == {x \in cs : ConnSendMessage(x) = "ok"}

Closed(cs) == {x \in cs : ConnSendMessage(x) = "closed"}

(* OptimizedConnectionManager.processMessage: the head of messageQueueChan  *)
(* goes to the recipient's connections in map order until one SendMessage   *)
(* works; a connection that answers "closed" is handed to                   *)
(* UnregisterConnection with its range key.  No connection in the table:    *)
(* return.  Nobody took it: storeOfflineMessage.                           *)
OptProcessMessage(n) ==
    /\ Optimized
    /\ up[n]
    /\ Quiet
    /\ queue[n] # <<>>
    /\ LET i == Head(queue[n])
           to == msgs[i].rcpt
           cs == UserConns(n, to)
           r0 == [Router EXCEPT !.queue[n] = Tail(@)]
       IN IF cs = {}
          THEN /\ Commit([r0 EXCEPT !.events[i] = @ \cup {"orphan"}])
               /\ UNCHANGED <<send, sentTo, tableVars, done, registry, serverUsers, ttl, beat>>
          ELSE \/ \E x \in Takers(cs) : \E T \in SUBSET Closed(cs) :
                    /\ send' = [send EXCEPT ![x] = Append(@, i)]
                    /\ sentTo' = [sentTo EXCEPT ![i] = @ \cup {x}]
                    /\ Commit([r0 EXCEPT !.outcome[i] = @ \cup {"local"}])
                    /\ CommitTable(UnregisterAll(n, to, {RangeKey(y) : y \in T}))
               \/ /\ Takers(cs) = {}
                  /\ Commit(OptStoreOfflineMessage(
                                [r0 EXCEPT !.events[i] = @ \cup {"notaker"}], i))
                  /\ CommitTable(UnregisterAll(n, to, {RangeKey(y) : y \in Closed(cs)}))
                  /\ UNCHANGED <<send, sentTo>>
    /\ UNCHANGED <<envVars, busy, hpc, msgs, notify, pending, accepted, viaBus, replayFailed, beat>>

(* RedisConnectionManager.processMessage: a first loop over the connections *)
(* whose range key is ConnectionTypeTCP, then a loop over the others; with  *)
(* no connection or no taker, storeOfflineMessage, its error logged.        *)
RedisProcessMessage(n) ==
    /\ ~Optimized
    /\ up[n]
    /\ Quiet
    /\ queue[n] # <<>>
    /\ LET i == Head(queue[n])
           to == msgs[i].rcpt
           cs == UserConns(n, to)
           first == Takers(TcpFirst(cs))
           r0 == [Router EXCEPT !.queue[n] = Tail(@)]
       IN \/ \E x \in (IF first # {} THEN first ELSE Takers(cs)) :
             \E T \in SUBSET Closed(cs) :
                /\ send' = [send EXCEPT ![x] = Append(@, i)]
                /\ sentTo' = [sentTo EXCEPT ![i] = @ \cup {x}]
                /\ Commit([r0 EXCEPT !.outcome[i] = @ \cup {"local"}])
                /\ CommitTable(UnregisterAll(n, to, {RangeKey(y) : y \in T}))
          \/ /\ Takers(cs) = {}
             /\ \E dbOK \in Outcomes :
                   Commit(StoreOfflineMessage(
                            [r0 EXCEPT !.events[i] =
                                 @ \cup {IF cs = {} THEN "orphan" ELSE "notaker"}], i, dbOK))
             /\ CommitTable(UnregisterAll(n, to, {RangeKey(y) : y \in Closed(cs)}))
             /\ UNCHANGED <<send, sentTo>>
    /\ UNCHANGED <<envVars, busy, hpc, msgs, notify, pending, accepted, viaBus, replayFailed, beat>>

(* startServerMessageListener: a payload from server_msg:{n} enters          *)
(* messageQueueChan, or is dropped when the queue is full.                 *)
startServerMessageListener(n) ==
    /\ Optimized
    /\ Subscribed(n)
    /\ Quiet
    /\ bus[n] # <<>>
    /\ LET i == Head(bus[n])
           room == Len(queue[n]) < cfg.qcap
       IN /\ bus' = [bus EXCEPT ![n] = Tail(@)]
          /\ queue' = [queue EXCEPT ![n] = IF room THEN Append(@, i) ELSE @]
          /\ viaBus' = [viaBus EXCEPT ![i] = IF room THEN @ \cup {n} ELSE @]
          /\ events' = [events EXCEPT ![i] = IF room THEN @ ELSE @ \cup {"busdrop"}]
    /\ UNCHANGED <<envVars, busy, sessVars, tableVars, registry, serverUsers, ttl, beat, msgs,
                   notify, db, pending, history, accepted, outcome, published, sentTo,
                   replayFailed, storeFailed>>

(* startRedisSubscription: a payload from message_to:{user} enters the       *)
(* queue if the user has a connection here and the queue has room.         *)
startRedisSubscription(n) ==
    /\ ~Optimized
    /\ Subscribed(n)
    /\ Quiet
    /\ bus[n] # <<>>
    /\ LET i == Head(bus[n])
           take == UserConns(n, msgs[i].rcpt) # {} /\ Len(queue[n]) < cfg.qcap
       IN /\ bus' = [bus EXCEPT ![n] = Tail(@)]
          /\ queue' = [queue EXCEPT ![n] = IF take THEN Append(@, i) ELSE @]
          /\ viaBus' = [viaBus EXCEPT ![i] = IF take THEN @ \cup {n} ELSE @]
          /\ UNCHANGED events
    /\ UNCHANGED <<envVars, busy, sessVars, tableVars, registry, serverUsers, ttl, beat, msgs,
                   notify, db, pending, history, accepted, outcome, published, sentTo,
                   replayFailed, storeFailed>>

(***************************************************************************)
(* Offline replay (RedisConnectionManager)                                 *)
(***************************************************************************)
(* GetOfflineMessages: the rows of the user with status "unsent", by        *)
(* ascending timestamp (ids are given in order of arrival).                *)
GetOfflineMessages(u) ==
    LET ids == {i \in 1..Len(msgs) : db[i] = "unsent" /\ msgs[i].rcpt = u}
        RECURSIVE asc(_)
        asc(S) == IF S = {} THEN <<>>
                  ELSE LET lo == CHOOSE x \in S : \A y \in S : x <= y
                       IN <<lo>> \o asc(S \ {lo})
    IN asc(ids)

(* The loop of sendOfflineMessages: SendMessage for each row; an error is   *)
(* logged and the loop continues. Each row is a message built anew; its     *)
(* HandledByLocal is taken as read before the worker reaches the row.       *)
RECURSIVE Replay(_, _, _)
Replay(r, n, ids) ==
    IF ids = <<>> THEN [r |-> r, failed |-> {}]
    ELSE LET i == Head(ids)
             r1 == RedisSendMessage(r, n, i, msgs[i].rcpt, FALSE)
             rest == Replay(r1, n, Tail(ids))
         IN [r |-> rest.r,
             failed |-> rest.failed \cup (IF r1.res = "err" THEN {i} ELSE {})]

(* MarkOfflineMessagesAsSent: UPDATE messages SET status = "sent" WHERE id   *)
(* IN ids.                                                                 *)
MarkOfflineMessagesAsSent(d, ids) ==
    [i \in MsgIds |-> IF \E k \in 1..Len(ids) : ids[k] = i THEN "sent" ELSE d[i]]

(* sendOfflineMessages, the goroutine RegisterConnection starts.            *)
sendOfflineMessages(n, u) ==
    /\ ~Optimized
    /\ up[n]
    /\ Quiet
    /\ u \in pending[n]
    /\ pending' = [pending EXCEPT ![n] = @ \ {u}]
    /\ \E dbOK, markOK \in Outcomes :
         LET ids == IF dbOK THEN GetOfflineMessages(u) ELSE <<>>
             run == Replay(Router, n, ids)
         IN /\ Commit([run.r EXCEPT !.db =
                         IF markOK THEN MarkOfflineMessagesAsSent(@, ids) ELSE @])
            /\ replayFailed' = replayFailed \cup run.failed
    /\ UNCHANGED <<envVars, busy, sessVars, tableVars, registry, serverUsers, ttl, beat, msgs,
                   notify, accepted, sentTo, viaBus>>

(***************************************************************************)
(* Registry heartbeat and key expiry                                       *)
(***************************************************************************)
(* updateHeartbeat: EXPIRE user_registry:{user} 5m for every member of      *)
(* localUsers; EXPIRE leaves a key that does not exist alone.               *)
updateHeartbeat(n) ==
    /\ Optimized
    /\ redisEnabled(n)
    /\ up[n]
    /\ Quiet
    /\ n \notin beat
    /\ beat' = beat \cup {n}
    /\ ttl' = [u \in Users |->
                 IF u \in localUsers[n] /\ registry[u] # None THEN RegistryTTL ELSE ttl[u]]
    /\ UNCHANGED <<envVars, busy, sessVars, tableVars, registry, serverUsers, bus,
                   msgVars, ghostVars>>

(* The nodes whose ticker fires every minute.                              *)
Beating == {n \in Nodes : up[n] /\ redisEnabled(n)}

(* A minute passes, each ticker having fired in it: the keys come a minute  *)
(* closer to their expiry, and Redis drops those that reach it.            *)
Tick ==
    /\ Quiet
    /\ beat = Beating
    /\ beat' = {}
    /\ ttl' = [u \in Users |-> IF ttl[u] > 0 THEN ttl[u] - 1 ELSE 0]
    /\ registry' = [u \in Users |-> IF ttl[u] <= 1 THEN None ELSE registry[u]]
    /\ UNCHANGED <<envVars, busy, sessVars, tableVars, serverUsers, bus, msgVars, ghostVars>>

(***************************************************************************)
(* Environment                                                             *)
(***************************************************************************)
(* A second passes on the servers' clock.                                  *)
ClockTick ==
    /\ Quiet
    /\ now < MaxClock
    /\ now' = now + 1
    /\ UNCHANGED <<cfg, rx, auth, timer, up, codec, conn, busy, sessVars, tableVars, redisVars, msgVars, ghostVars>>

(* A node's process dies: its memory, its connections and its subscription  *)
(* go; what it wrote to Redis stays.                                       *)
Crash(n) ==
    /\ cfg.crash
    /\ up[n]
    /\ Quiet
    /\ up' = [up EXCEPT ![n] = FALSE]
    /\ hpc' = [s \in Slots |-> IF nodeOf(s) = n /\ hpc[s] # "idle" THEN "fin" ELSE hpc[s]]
    /\ done' = [s \in Slots |-> done[s] \/ (nodeOf(s) = n /\ hpc[s] # "idle")]
    /\ send' = [s \in Slots |-> IF nodeOf(s) = n THEN <<>> ELSE send[s]]
    /\ connections' = [connections EXCEPT ![n] = {}]
    /\ localUsers' = [localUsers EXCEPT ![n] = {}]
    /\ online' = [online EXCEPT ![n] = {}]
    /\ bus' = [bus EXCEPT ![n] = <<>>]
    /\ queue' = [queue EXCEPT ![n] = <<>>]
    /\ notify' = [notify EXCEPT ![n] = <<>>]
    /\ pending' = [pending EXCEPT ![n] = {}]
    /\ UNCHANGED <<cfg, rx, auth, timer, now, codec, conn, busy, registry, serverUsers, ttl, beat, msgs, db, history, ghostVars>>

(***************************************************************************)
(* MessageAdapter                                                          *)
(***************************************************************************)
ProtocolTypeJSON == "json"
ProtocolTypeProtobuf == "protobuf"

(* The fields of a Message that the model carries, with Go's zero values.   *)
WireFields == {"type", "status", "is_group", "content", "timestamp"}

ZeroValue(f) ==
    CASE f \in {"status", "content"} -> ""
      [] f = "is_group" -> FALSE
      [] f = "type" -> ""
      [] OTHER -> 0

(* The zero values of the fields of pb.Message: its enums are numbers.      *)
PbZeroValue(f) ==
    CASE f = "content" -> ""
      [] f = "is_group" -> FALSE
      [] OTHER -> 0

(* json struct tags with omitempty.                                        *)
OmitEmpty == {"is_group", "status"}

(* stringToMessageType; strings.ToLower leaves the lower-case names of the  *)
(* model as they are.                                                      *)
stringToMessageType(t) ==
    CASE t \in {"message", "text"} -> 1
      [] t = "image" -> 2
      [] t = "file" -> 3
      [] t = "audio" -> 4
      [] t = "video" -> 5
      [] t = "ping" -> 6
      [] t = "pong" -> 7
      [] t = "status" -> 8
      [] t = "command" -> 9
      [] t = "response" -> 10
      [] t = "error" -> 11
      [] OTHER -> 0

messageTypeToString(k) ==
    CASE k = 1 -> "message"
      [] k = 2 -> "image"
      [] k = 3 -> "file"
      [] k = 4 -> "audio"
      [] k = 5 -> "video"
      [] k = 6 -> "ping"
      [] k = 7 -> "pong"
      [] k = 8 -> "status"
      [] k = 9 -> "command"
      [] k = 10 -> "response"
      [] k = 11 -> "error"
      [] OTHER -> "unknown"

stringToMessageStatus(st) ==
    CASE st = "sent" -> 1
      [] st = "delivered" -> 2
      [] st = "read" -> 3
      [] st = "failed" -> 4
      [] OTHER -> 0

messageStatusToString(k) ==
    CASE k = 1 -> "sent"
      [] k = 2 -> "delivered"
      [] k = 3 -> "read"
      [] k = 4 -> "failed"
      [] OTHER -> "unknown"

JSONToProtobuf(m) ==
    [type |-> stringToMessageType(m.type),
     status |-> stringToMessageStatus(m.status),
     is_group |-> m.is_group,
     content |-> m.content,
     timestamp |-> m.timestamp]

ProtobufToJSON(pb) ==
    [type |-> messageTypeToString(pb.type),
     status |-> messageStatusToString(pb.status),
     is_group |-> pb.is_group,
     content |-> pb.content,
     timestamp |-> pb.timestamp]

(* json.Marshal: one key per field, the empty omitempty fields left out;    *)
(* json.Unmarshal: a key that is missing leaves the zero value.             *)
JSONMarshal(m) ==
    [f \in {g \in WireFields : ~(g \in OmitEmpty /\ m[g] = ZeroValue(g))} |-> m[f]]

JSONUnmarshal(w) ==
    [f \in WireFields |-> IF f \in DOMAIN w THEN w[f] ELSE ZeroValue(f)]

(* proto.Marshal writes the fields that differ from their zero value;       *)
(* proto.Unmarshal leaves the others at zero.                               *)
ProtoMarshal(pb) ==
    [f \in {g \in WireFields : pb[g] # PbZeroValue(g)} |-> pb[f]]

ProtoUnmarshal(w) ==
    [f \in WireFields |-> IF f \in DOMAIN w THEN w[f] ELSE PbZeroValue(f)]

SerializeMessage(m, e) ==
    IF e = ProtocolTypeJSON THEN JSONMarshal(m) ELSE ProtoMarshal(JSONToProtobuf(m))

DeserializeMessage(w, e) ==
    IF e = ProtocolTypeJSON THEN JSONUnmarshal(w) ELSE ProtobufToJSON(ProtoUnmarshal(w))

(* A connection's writer serializes the message for its protocol.           *)
Serialize ==
    /\ codec.stage = "new"
    /\ codec' = [codec EXCEPT !.stage = "wire",
                              !.wire = SerializeMessage(codec.msg, codec.enc)]
    /\ UNCHANGED <<cfg, rx, auth, timer, up, now, conn, busy, sessVars, tableVars, redisVars, msgVars, ghostVars>>

(* The peer's reader deserializes what arrived.                            *)
Deserialize ==
    /\ codec.stage = "wire"
    /\ codec' = [codec EXCEPT !.stage = "read",
                              !.back = DeserializeMessage(codec.wire, codec.enc)]
    /\ UNCHANGED <<cfg, rx, auth, timer, up, now, conn, busy, sessVars, tableVars, redisVars, msgVars, ghostVars>>

(***************************************************************************)
(* Specifications                                                          *)
(***************************************************************************)
(* Two nodes that share Redis, or both run without it: the sender u1 on n1, *)
(* the recipient u2 with a client for each node.                           *)
ClusterSlots ==
    [a |-> [user |-> "u1", ctype |-> ConnectionTypeWebSocket, node |-> "n1"],
     b |-> [user |-> "u2", ctype |-> ConnectionTypeWebSocket, node |-> "n1"],
     c |-> [user |-> "u2", ctype |-> ConnectionTypeWebSocket, node |-> "n2"]]

ClusterCfg(r) ==
    [mgr |-> "optimized", slots |-> ClusterSlots, redis |-> [n \in Nodes |-> r],
     friends |-> [u \in Users |-> {}], rcpts |-> {"u2"},
     flaky |-> r, crash |-> TRUE, fine |-> FALSE,
     cap |-> MaxMsgs, stamps |-> {0},
     qcap |-> QueueCap, scap |-> SendCap]

Init == \E r \in BOOLEAN : InitWith(ClusterCfg(r))

Next ==
    \/ \E s \in Slots : Connect(s)
    \/ \E s \in Slots : RegisterConnection(s)
    \/ \E s \in Slots : RegisterUser(s)
    \/ \E s \in Slots : ReadLoopExit(s)
    \/ \E s \in Slots : HandlerWakes(s)
    \/ \E s \in Slots : UnregisterRemove(s)
    \/ \E s \in Slots : UnregisterCheck(s)
    \/ \E s \in Slots : UnregisterUser(s)
    \/ \E s \in Slots : UnregisterStatus(s)
    \/ \E s \in Slots : StartWriting(s)
    \/ \E s \in Slots : \E to \in Users : HandleChatMessage(s, to)
    \/ \E n \in Nodes : OptProcessMessage(n)
    \/ \E n \in Nodes : startServerMessageListener(n)
    \/ \E n \in Nodes : Crash(n)

Spec == Init /\ [][Next]_vars

(* One node under RedisConnectionManager in memory-only mode: u1, whose     *)
(* friend list names u2, and u2 with a WebSocket and a TCP client.          *)
StoreSlots ==
    [a |-> [user |-> "u1", ctype |-> ConnectionTypeWebSocket, node |-> "n1"],
     b |-> [user |-> "u2", ctype |-> ConnectionTypeWebSocket, node |-> "n1"],
     c |-> [user |-> "u2", ctype |-> ConnectionTypeTCP, node |-> "n1"]]

StoreCfg ==
    [mgr |-> "redis", slots |-> StoreSlots, redis |-> [n \in Nodes |-> FALSE],
     friends |-> [u \in Users |-> IF u = "u1" THEN {"u2"} ELSE {}], rcpts |-> {"u2"},
     flaky |-> FALSE, crash |-> FALSE, fine |-> FALSE,
     cap |-> MaxMsgs, stamps |-> {0},
     qcap |-> QueueCap, scap |-> SendCap]

InitStore == InitWith(StoreCfg)

NextStore ==
    \/ \E s \in Slots : Connect(s)
    \/ \E s \in Slots : RegisterConnection(s)
    \/ \E s \in Slots : RegisterUser(s)
    \/ \E s \in Slots : ReadLoopExit(s)
    \/ \E s \in Slots : HandlerWakes(s)
    \/ \E s \in Slots : UnregisterRemove(s)
    \/ \E s \in Slots : UnregisterStatus(s)
    \/ \E s \in Slots : StartWriting(s)
    \/ \E s \in Slots : \E to \in Users : HandleChatMessage(s, to)
    \/ \E n \in Nodes : processNotifications(n)
    \/ \E n \in Nodes : RedisProcessMessage(n)
    \/ \E n \in Nodes : \E u \in Users : sendOfflineMessages(n, u)

SpecStore == InitStore /\ [][NextStore]_vars

(* One node with Redis: u1 with two WebSocket clients and a tcp_ws client,  *)
(* the handlers' steps interleaved one by one.                             *)
SessionSlots ==
    [a |-> [user |-> "u1", ctype |-> ConnectionTypeWebSocket, node |-> "n1"],
     b |-> [user |-> "u1", ctype |-> ConnectionTypeTCPWS, node |-> "n1"],
     c |-> [user |-> "u1", ctype |-> ConnectionTypeWebSocket, node |-> "n1"]]

SessionCfg ==
    [mgr |-> "optimized", slots |-> SessionSlots, redis |-> [n \in Nodes |-> TRUE],
     friends |-> [u \in Users |-> {}], rcpts |-> {},
     flaky |-> FALSE, crash |-> FALSE, fine |-> TRUE,
     cap |-> MaxMsgs, stamps |-> {0},
     qcap |-> QueueCap, scap |-> SendCap]

InitSessions == InitWith(SessionCfg)

NextSessions ==
    \/ \E s \in Slots : Connect(s)
    \/ \E s \in Slots : RegisterConnection(s)
    \/ \E s \in Slots : RegisterUser(s)
    \/ \E s \in Slots : ReadLoopExit(s)
    \/ \E s \in Slots : HandlerWakes(s)
    \/ \E s \in Slots : UnregisterRemove(s)
    \/ \E s \in Slots : UnregisterCheck(s)
    \/ \E s \in Slots : UnregisterUser(s)
    \/ \E s \in Slots : UnregisterStatus(s)

SpecSessions == InitSessions /\ [][NextSessions]_vars

(* Two nodes that share a healthy Redis, with the registry's clock: u2 has   *)
(* a client for each node, u1 one on n1; nobody writes.                     *)
RegistryCfg ==
    [mgr |-> "optimized", slots |-> ClusterSlots, redis |-> [n \in Nodes |-> TRUE],
     friends |-> [u \in Users |-> {}], rcpts |-> {},
     flaky |-> FALSE, crash |-> FALSE, fine |-> FALSE,
     cap |-> MaxMsgs, stamps |-> {0},
     qcap |-> QueueCap, scap |-> SendCap]

InitRegistry == InitWith(RegistryCfg)

(* A step of a connection handler's own code.                              *)
HandlerStep ==
    \E s \in Slots :
        \/ RegisterConnection(s)
        \/ RegisterUser(s)
        \/ HandlerWakes(s)
        \/ UnregisterRemove(s)
        \/ UnregisterCheck(s)
        \/ UnregisterUser(s)
        \/ UnregisterStatus(s)

NextRegistry ==
    \/ \E s \in Slots : Connect(s)
    \/ \E s \in Slots : ReadLoopExit(s)
    \/ HandlerStep
    \/ \E n \in Nodes : updateHeartbeat(n)
    \/ Tick

(* The goroutines run on: a handler that can take its next statement takes  *)
(* it, the tickers fire and time passes.  Clients connect and leave as      *)
(* they please.                                                            *)
SpecRegistry ==
    /\ InitRegistry
    /\ [][NextRegistry]_vars
    /\ WF_vars(HandlerStep)
    /\ WF_vars(\E n \in Nodes : updateHeartbeat(n))
    /\ WF_vars(Tick)

(* One node in memory-only mode: u1, whose friend list names u2, with a      *)
(* binary and a WebSocket client, and u2 with one client; the run follows   *)
(* the handlers and their status broadcasts.                               *)
PresenceSlots ==
    [a |-> [user |-> "u1", ctype |-> ConnectionTypeTCPWS, node |-> "n1"],
     b |-> [user |-> "u2", ctype |-> ConnectionTypeWebSocket, node |-> "n1"],
     c |-> [user |-> "u1", ctype |-> ConnectionTypeWebSocket, node |-> "n1"]]

PresenceCfg ==
    [mgr |-> "optimized", slots |-> PresenceSlots, redis |-> [n \in Nodes |-> FALSE],
     friends |-> [u \in Users |-> IF u = "u1" THEN {"u2"} ELSE {}], rcpts |-> {},
     flaky |-> FALSE, crash |-> FALSE, fine |-> FALSE,
     cap |-> MaxStatus, stamps |-> {0},
     qcap |-> QueueCap, scap |-> SendCap]

InitPresence == InitWith(PresenceCfg)

NextPresence ==
    \/ \E s \in Slots : Connect(s)
    \/ \E s \in Slots : RegisterConnection(s)
    \/ \E s \in Slots : RegisterUser(s)
    \/ \E s \in Slots : ReadLoopExit(s)
    \/ \E s \in Slots : HandlerWakes(s)
    \/ \E s \in Slots : UnregisterRemove(s)
    \/ \E s \in Slots : UnregisterStatus(s)

SpecPresence == InitPresence /\ [][NextPresence]_vars

(* One node with Redis and a database that can fail: u1 writes to u2, who   *)
(* is not connected, its client choosing each message's timestamp or        *)
(* leaving it zero, while the clock runs.                                  *)
HistorySlots ==
    [a |-> [user |-> "u1", ctype |-> ConnectionTypeWebSocket, node |-> "n1"]]

HistoryCfg ==
    [mgr |-> "optimized", slots |-> HistorySlots, redis |-> [n \in Nodes |-> TRUE],
     friends |-> [u \in Users |-> {}], rcpts |-> {"u2"},
     flaky |-> TRUE, crash |-> FALSE, fine |-> FALSE,
     cap |-> MaxMsgs, stamps |-> 0..MaxClock,
     qcap |-> QueueCap, scap |-> SendCap]

InitHistory == InitWith(HistoryCfg)

NextHistory ==
    \/ \E s \in Slots : Connect(s)
    \/ \E s \in Slots : RegisterConnection(s)
    \/ \E s \in Slots : RegisterUser(s)
    \/ \E s \in Slots : ReadLoopExit(s)
    \/ \E s \in Slots : HandlerWakes(s)
    \/ \E s \in Slots : UnregisterRemove(s)
    \/ \E s \in Slots : UnregisterCheck(s)
    \/ \E s \in Slots : UnregisterUser(s)
    \/ \E s \in Slots : UnregisterStatus(s)
    \/ \E s \in Slots : \E to \in Users : HandleChatMessage(s, to)
    \/ ClockTick

SpecHistory == InitHistory /\ [][NextHistory]_vars

(* Two nodes that share a healthy Redis, with room for two messages in a    *)
(* queue and in a send channel: u1 writes to u2, who has a client for each  *)
(* node.                                                                   *)
OrderCfg ==
    [mgr |-> "optimized", slots |-> ClusterSlots, redis |-> [n \in Nodes |-> TRUE],
     friends |-> [u \in Users |-> {}], rcpts |-> {"u2"},
     flaky |-> FALSE, crash |-> FALSE, fine |-> FALSE,
     cap |-> MaxMsgs, stamps |-> {0},
     qcap |-> QueueCap + 1, scap |-> SendCap + 1]

InitOrder == InitWith(OrderCfg)

NextOrder ==
    \/ \E s \in Slots : Connect(s)
    \/ \E s \in Slots : RegisterConnection(s)
    \/ \E s \in Slots : RegisterUser(s)
    \/ \E s \in Slots : ReadLoopExit(s)
    \/ \E s \in Slots : HandlerWakes(s)
    \/ \E s \in Slots : UnregisterRemove(s)
    \/ \E s \in Slots : UnregisterCheck(s)
    \/ \E s \in Slots : UnregisterUser(s)
    \/ \E s \in Slots : UnregisterStatus(s)
    \/ \E s \in Slots : StartWriting(s)
    \/ \E s \in Slots : \E to \in Users : HandleChatMessage(s, to)
    \/ \E n \in Nodes : OptProcessMessage(n)
    \/ \E n \in Nodes : startServerMessageListener(n)

SpecOrder == InitOrder /\ [][NextOrder]_vars

(* The adapter alone: a message of every type and status the protocol      *)
(* names, for each encoding.                                               *)
MessageTypes ==
    {"message", "text", "image", "file", "audio", "video", "ping", "pong",
     "status", "error", "command", "response"}

MessageStatuses == {"", "sent", "delivered", "read", "failed", "unsent"}

CodecInputs ==
    {[stage |-> "new", enc |-> e, wire |-> <<>>, back |-> <<>>,
      msg |-> [type |-> t, status |-> st, is_group |-> g,
               content |-> c, timestamp |-> 1700000000]] :
        e \in {ProtocolTypeJSON, ProtocolTypeProtobuf}, t \in MessageTypes,
        st \in MessageStatuses, c \in {"", "hi"}, g \in BOOLEAN}

InitCodec == InitFrom(RegistryCfg, CodecInputs)

NextCodec ==
    \/ Serialize
    \/ Deserialize

SpecCodec == InitCodec /\ [][NextCodec]_vars

(***************************************************************************)
(* Properties                                                              *)
(***************************************************************************)
Range(q) == {q[k] : k \in 1..Len(q)}

Created == 1..Len(msgs)

(* The message waits in no queue, channel or subscription buffer.           *)
Handled(i) ==
    \A n \in Nodes : i \notin Range(queue[n]) \cup Range(bus[n]) \cup Range(notify[n])

AllUp == \A n \in Nodes : up[n]

(* The kinds of outcome the router of the accepting node produced.          *)
Kinds(i) ==
    (IF \E x \in sentTo[i] : nodeOf(x) = msgs[i].origin THEN {"local"} ELSE {})
    \cup (IF published[i] # <<>> THEN {"publish"} ELSE {})
    \cup (IF "offline" \in outcome[i] THEN {"offline"} ELSE {})

(* C1: every chat message SendMessage accepted shows, once it is handled,   *)
(* exactly one kind of outcome: a successful Send to a local session, a     *)
(* publish to a remote node's channel, or an insert into the offline store. *)
C1_ExactlyOneOutcome ==
    \A i \in Created :
        (msgs[i].type = "text" /\ accepted[i] = "ok" /\ Handled(i) /\ AllUp)
            => Cardinality(Kinds(i)) = 1

(* C2: a message SendMessage accepted while the recipient had an open       *)
(* session in the node's table was taken by some session's Send once it is  *)
(* handled.                                                                *)
C2_LocalRecipientGetsSend ==
    \A i \in Created :
        (accepted[i] = "ok" /\ "hadLocal" \in events[i] /\ Handled(i) /\ AllUp)
            => sentTo[i] # {}

(* C3: a saved chat message that found no session of its recipient has a    *)
(* row with status "unsent", until a replay has delivered it and set the    *)
(* row to "sent".                                                          *)
C3_UndeliveredIsUnsent ==
    \A i \in Created :
        (msgs[i].type = "text" /\ db[i] # None /\ "orphan" \in events[i])
            => \/ db[i] = "unsent"
               \/ db[i] = "sent" /\ sentTo[i] # {}

(* C4: a row whose replay SendMessage returned an error keeps the status    *)
(* "unsent".                                                               *)
C4_FailedReplayStaysUnsent == \A i \in replayFailed : db[i] = "unsent"

PublishStep ==
    \A i \in MsgIds :
        published'[i] # published[i] =>
            /\ published[i] = <<>>
            /\ registry[msgs'[i].rcpt] \in Nodes \ {msgs'[i].origin}
            /\ published'[i] = <<registry[msgs'[i].rcpt]>>
            /\ \A n \in Nodes :
                 bus'[n] = IF n = registry[msgs'[i].rcpt] /\ Subscribed(n)
                           THEN Append(bus[n], i) ELSE bus[n]

ListenStep ==
    \A n \in Nodes :
        (bus[n] # <<>> /\ bus'[n] = Tail(bus[n]) /\ up'[n] /\ Len(queue[n]) < cfg.qcap)
            => queue'[n] = Append(queue[n], Head(bus[n]))

ProcessStep ==
    \A n \in Nodes :
        (/\ queue[n] # <<>>
         /\ queue'[n] = Tail(queue[n])
         /\ up'[n]
         /\ n \in viaBus[Head(queue[n])]
         /\ Takers(UserConns(n, msgs[Head(queue[n])].rcpt)) # {})
            => \E x \in Takers(UserConns(n, msgs[Head(queue[n])].rcpt)) :
                 /\ send'[x] = Append(send[x], Head(queue[n]))
                 /\ x \in sentTo'[Head(queue[n])]

C6_WrongNodeGoesOffline ==
    \A i \in Created :
        (viaBus[i] # {} /\ "orphan" \in events[i])
            => "offline" \in outcome[i] /\ Len(published[i]) <= 1

(* C7: a message published on the channel of a node that has no subscriber  *)
(* is written to the offline store.                                        *)
C7_NoSubscriberGoesOffline ==
    \A i \in Created : "nosub" \in events[i] => "offline" \in outcome[i]

(* C8: the sender of a message that was neither delivered nor published     *)
(* and whose offline insert failed gets an error message.                   *)
C8_UnroutableGetsError ==
    \A i \in storeFailed :
        \E j \in Created :
            j > i /\ msgs[j].type = "error" /\ msgs[j].rcpt = msgs[i].sender

(* C9: without the registry (Redis disabled, or the lookup failed) a        *)
(* message to a recipient with an open session on the same node is taken    *)
(* by that session, and nothing is published.                              *)
C9_DegradedStillLocal ==
    \A i \in Created :
        (/\ accepted[i] = "ok"
         /\ ~redisEnabled(msgs[i].origin) \/ "lookupFailed" \in events[i]
         /\ "hadLocal" \in events[i]
         /\ Handled(i)
         /\ AllUp)
            => sentTo[i] # {} /\ published[i] = <<>>

(* C10 as stated: no session whose done signal has fired is in the table.   *)
C10_NoTerminalInTable ==
    \A s \in Slots : done[s] => s \notin connections[nodeOf(s)]

(* C10, amended: a session whose done signal has fired is in the table only *)
(* until its handler's deferred UnregisterConnection has removed it; from   *)
(* then on it is not in the table.                                         *)
C10_TerminalOnlyUntilUnregister ==
    \A s \in Slots :
        (done[s] /\ s \in connections[nodeOf(s)]) => hpc[s] \in {"run", "unrA"}

C10_Witness ==
    \E s \in Slots :
        /\ done[s]
        /\ hpc[s] \in {"unrB", "unrC", "unrD", "fin"}
        /\ s \notin connections[nodeOf(s)]
        /\ \E x \in connections[nodeOf(s)] : userOf(x) = userOf(s)

(* No binary client of the user has started on the node: no arbitration     *)
(* has touched the user's WebSocket sessions.                              *)
NoBinaryStarted(x) ==
    \A b \in Slots :
        (userOf(b) = userOf(x) /\ nodeOf(b) = nodeOf(x) /\ IsBinary(b)) => hpc[b] = "idle"

(* C11: unregistering one session removes only that session: a session      *)
(* whose own handler is still waiting on its done channel stays in the      *)
(* table and open unless its own read loop ended.                          *)
C11_OnlyThatSession ==
    \A x \in Slots :
        (hpc[x] = "run" /\ NoBinaryStarted(x) /\ up[nodeOf(x)])
            => x \in connections[nodeOf(x)]

(* The WebSocket (JSON) sessions of b's user in the table of b's node.      *)
JsonSessions(b, table) ==
    {x \in table[nodeOf(b)] :
        userOf(x) = userOf(b) /\ GetConnectionType(x) = <<ConnectionTypeWebSocket>>}

(* C12: at the step that puts a binary session into the table, no           *)
(* WebSocket session of the same user registered earlier is in the table.   *)
C12_BinaryEvictsJson ==
    [][\A b \in Slots :
          (IsBinary(b) /\ b \notin connections[nodeOf(b)] /\ b \in connections'[nodeOf(b)])
              => JsonSessions(b, connections) = {}]_vars

(* The names the deployments give their clients.                           *)
SlotIds == {"a", "b", "c"}

(* x and y are sessions of one user on two nodes, and the registry entry    *)
(* names y's node.                                                         *)
Contended(x, y) ==
    /\ userOf(x) = userOf(y)
    /\ nodeOf(x) # nodeOf(y)
    /\ hpc[x] = "run" /\ x \in connections[nodeOf(x)]
    /\ hpc[y] = "run" /\ y \in connections[nodeOf(y)]
    /\ registry[userOf(x)] = nodeOf(y)

(* C13: when two nodes hold a session of one user, the node the registry    *)
(* does not name eventually removes its session of the user.               *)
C13_LoserEvicts ==
    \A x \in SlotIds : \A y \in SlotIds :
        Contended(x, y) ~> (x \notin connections[nodeOf(x)])

(* GET user_registry:{user}.                                               *)
Lookup(u) == registry[u]

(* s's UnregisterConnection has just removed the last session of its user   *)
(* on its node.                                                            *)
LeftNone(s) ==
    /\ hpc[s] = "unrB"
    /\ UserConns(nodeOf(s), userOf(s)) = {}

(* A session of s's user is being registered.                              *)
Registering(s) ==
    \E x \in Slots : userOf(x) = userOf(s) /\ hpc[x] \in {"regA", "regB"}

OfflineBroadcast(s) ==
    /\ hpc[s] = "run" /\ hpc'[s] = "unrA"
    /\ Len(msgs') > Len(msgs)

(* The user's sessions on the node that s's own UnregisterConnection will   *)
(* leave in the table.                                                     *)
Surviving(s) ==
    UserConns(nodeOf(s), userOf(s)) \ Matching(nodeOf(s), userOf(s), GetConnectionType(s))

(* C15: the offline status of a user is broadcast to the friends only by    *)
(* the end of the user's last local session, and the status manager drops   *)
(* the user only when no session of the user is left.                      *)
C15_OfflineOnlyForLast ==
    [][/\ \A s \in Slots : OfflineBroadcast(s) => Surviving(s) = {}
       /\ \A n \in Nodes : \A u \in Users :
             (u \in online[n] /\ u \notin online'[n]) => UserConns(n, u) = {}]_vars

(* Chat messages i and j were read from the same session.                   *)
SameSession(i, j) ==
    /\ msgs[i].type = "text" /\ msgs[j].type = "text"
    /\ msgs[i].sender = msgs[j].sender
    /\ msgs[i].origin = msgs[j].origin

(* C16 as stated: of two messages read from one session, the one with the   *)
(* smaller timestamp has its row written first.                            *)
C16_TimestampOrder ==
    \A p \in 1..Len(history) : \A q \in 1..Len(history) :
        (SameSession(history[p], history[q])
            /\ msgs[history[p]].timestamp < msgs[history[q]].timestamp) => p < q

(* What the read loop does keep: of two messages read from one session,    *)
(* the one read first has its row written first, whatever their timestamps. *)
ReadOrder ==
    \A p \in 1..Len(history) : \A q \in 1..Len(history) :
        (SameSession(history[p], history[q]) /\ history[p] < history[q]) => p < q

(* Two rows of one session, the client's timestamps running backwards.      *)
BackwardsStamps ==
    /\ Len(history) = 2
    /\ SameSession(history[1], history[2])
    /\ history[1] < history[2]
    /\ msgs[history[1]].timestamp > msgs[history[2]].timestamp

(* x is the only client of its user that ever connected.                    *)
SingleSession(x) ==
    \A y \in Slots \ {x} : userOf(y) = userOf(x) => hpc[y] = "idle"

(* Message j goes onto the send channel of x in this step.                  *)
Enqueued(j, x) == x \in sentTo'[j] /\ x \notin sentTo[j]

(* C17: when a message is put on the send channel of its recipient's only   *)
(* session, no message that the same session sent later to the same         *)
(* recipient has been put there before it.                                 *)
C17_EnqueuedInOrderSent ==
    [][\A x \in Slots : \A j \in Created :
          (Enqueued(j, x) /\ SingleSession(x))
              => /\ send'[x] = Append(send[x], j)
                 /\ \A i \in Created :
                       (i > j /\ SameSession(i, j) /\ msgs[i].rcpt = msgs[j].rcpt)
                           => x \notin sentTo[i]]_vars

(* Two messages of one session wait, in the order sent, on the send channel *)
(* of the recipient's only session.                                        *)
C17_Witness ==
    \E x \in Slots :
        /\ SingleSession(x)
        /\ Len(msgs) = 2 /\ SameSession(1, 2) /\ msgs[1].rcpt = userOf(x)
        /\ send[x] = <<1, 2>>
        /\ sentTo[1] = {x} /\ sentTo[2] = {x}

(* C18: a message that was serialized and deserialized with one encoding    *)
(* comes back equal on every field.                                        *)
C18_RoundTrip ==
    codec.stage = "read" => codec.back = codec.msg


(***************************************************************************)
(* A connection's channels, one channel operation a step                   *)
(***************************************************************************)
(* The process runs: no goroutine has panicked.                            *)
Alive == conn.panic = None

(* The send channel has been closed.                                       *)
SendClosed == conn.closes.send > 0

(* SendMessage is called with message i.                                   *)
SendMessageCall(s, i) ==
    /\ Alive
    /\ conn.sending = "idle"
    /\ conn' = [conn EXCEPT !.arg = i, !.ret = None, !.sending = "check"]
    /\ UNCHANGED <<cfg, rx, auth, timer, up, now, codec, busy, sessVars, tableVars, redisVars, msgVars, ghostVars>>

(* SendMessage, the first select: "连接已关闭" when done is closed already, *)
(* the second select otherwise.                                            *)
SendMessageCheck(s) ==
    /\ Alive
    /\ conn.sending = "check"
    /\ conn' = IF done[s]
               THEN [conn EXCEPT !.ret = "closed", !.sending = "idle"]
               ELSE [conn EXCEPT !.sending = "select"]
    /\ UNCHANGED <<cfg, rx, auth, timer, up, now, codec, busy, sessVars, tableVars, redisVars, msgVars, ghostVars>>

(* The cases of SendMessage's second select that can proceed: a send on a   *)
(* closed channel proceeds (and panics), a send on an open one needs room.  *)
SendCases(s) ==
    {c \in {"send"} : SendClosed \/ Len(send[s]) < cfg.scap}
        \cup {c \in {"done"} : done[s]}

(* SendMessage, the second select: one of the cases that can proceed,       *)
(* chosen by the runtime, or the default when there is none.               *)
SendMessageSelect(s) ==
    /\ Alive
    /\ conn.sending = "select"
    /\ \E c \in (IF SendCases(s) = {} THEN {"default"} ELSE SendCases(s)) :
          CASE c = "send" /\ SendClosed ->
                  /\ conn' = [conn EXCEPT !.sending = "idle",
                                          !.panic = "send on closed channel"]
                  /\ UNCHANGED send
            [] c = "send" /\ ~SendClosed ->
                  /\ conn' = [conn EXCEPT !.sending = "idle", !.ret = "ok"]
                  /\ send' = [send EXCEPT ![s] = Append(@, conn.arg)]
            [] c = "done" ->
                  /\ conn' = [conn EXCEPT !.sending = "idle", !.ret = "closed"]
                  /\ UNCHANGED send
            [] c = "default" ->
                  /\ conn' = [conn EXCEPT !.sending = "idle", !.ret = "full"]
                  /\ UNCHANGED send
    /\ UNCHANGED <<cfg, rx, auth, timer, up, now, codec, busy, hpc, done, tableVars, redisVars, msgVars, ghostVars>>

(* Close, the select: return nil when done is closed, go on to close it     *)
(* otherwise.  A caller that returned may call again.                      *)
CloseCheck(s, k) ==
    /\ Alive
    /\ conn.closing[k] \in {"idle", "returned"}
    /\ conn' = [conn EXCEPT !.closing[k] = IF done[s] THEN "returned" ELSE "closeDone"]
    /\ UNCHANGED <<cfg, rx, auth, timer, up, now, codec, busy, sessVars, tableVars, redisVars, msgVars, ghostVars>>

(* Close, close(c.done): closing a closed channel panics.                  *)
CloseDone(s, k) ==
    /\ Alive
    /\ conn.closing[k] = "closeDone"
    /\ conn' = [conn EXCEPT !.closes.done = @ + 1,
                            !.closing[k] = "closeSend",
                            !.panic = IF done[s] THEN "close of closed channel" ELSE None]
    /\ done' = [done EXCEPT ![s] = TRUE]
    /\ UNCHANGED <<cfg, rx, auth, timer, up, now, codec, busy, hpc, send, tableVars, redisVars, msgVars, ghostVars>>

(* Close, close(c.send) and the return of c.conn.Close().                  *)
CloseSend(s, k) ==
    /\ Alive
    /\ conn.closing[k] = "closeSend"
    /\ conn' = [conn EXCEPT !.closes.send = @ + 1,
                            !.closing[k] = "returned",
                            !.panic = IF SendClosed THEN "close of closed channel" ELSE None]
    /\ UNCHANGED <<cfg, rx, auth, timer, up, now, codec, busy, sessVars, tableVars, redisVars, msgVars, ghostVars>>

(* The cases of StartWriting's select that can proceed (the ticker aside):  *)
(* a receive proceeds on a message or on a closed channel.                 *)
WriteCases(s) ==
    {c \in {"recv"} : send[s] # <<>> \/ SendClosed}
        \cup {c \in {"done"} : done[s]}

(* StartWriting, one turn of its loop: return on done, on a closed and      *)
(* drained send channel or on a failed write; write the head otherwise.     *)
StartWritingSelect(s) ==
    /\ Alive
    /\ conn.writing
    /\ \E c \in WriteCases(s) : \E ok \in BOOLEAN :
          IF c = "recv" /\ send[s] # <<>>
          THEN /\ send' = [send EXCEPT ![s] = Tail(@)]
               /\ conn' = [conn EXCEPT !.writing = ok]
          ELSE /\ conn' = [conn EXCEPT !.writing = FALSE]
               /\ UNCHANGED send
    /\ UNCHANGED <<cfg, rx, auth, timer, up, now, codec, busy, hpc, done, tableVars, redisVars, msgVars, ghostVars>>

(* One connection on one node, with room for two messages in its send       *)
(* channel: the manager sends to it while its read loop and the manager     *)
(* close it and its write loop drains it.                                  *)
ChannelCfg ==
    [mgr |-> "optimized", slots |-> HistorySlots, redis |-> [n \in Nodes |-> FALSE],
     friends |-> [u \in Users |-> {}], rcpts |-> {},
     flaky |-> FALSE, crash |-> FALSE, fine |-> FALSE,
     cap |-> MaxMsgs, stamps |-> {0},
     qcap |-> QueueCap, scap |-> SendCap + 1]

InitChannel == InitWith(ChannelCfg)

NextChannel ==
    \/ \E s \in Slots : \E i \in 1..cfg.cap : SendMessageCall(s, i)
    \/ \E s \in Slots : SendMessageCheck(s)
    \/ \E s \in Slots : SendMessageSelect(s)
    \/ \E s \in Slots : \E k \in Closers : CloseCheck(s, k)
    \/ \E s \in Slots : \E k \in Closers : CloseDone(s, k)
    \/ \E s \in Slots : \E k \in Closers : CloseSend(s, k)
    \/ \E s \in Slots : StartWritingSelect(s)

SpecChannel == InitChannel /\ [][NextChannel]_vars

(* A call of SendMessage ends in this step: it returns or it panics.       *)
SendEnds == conn.sending # "idle" /\ conn'.sending = "idle"

C20_CloseIdempotent ==
    /\ conn.closes.done <= 1
    /\ conn.closes.send <= 1
    /\ conn.panic # "close of closed channel"


(***************************************************************************)
(* The read loop of a connection and the handler of what it reads          *)
(***************************************************************************)
(* MaxMessageSize; the WebSocket read limit is twice that.                  *)
MaxMessageSize == 10000

(* What a client can put into a frame.  tag is the frame's encoding: the    *)
(* WebSocket message type (text, binary) or the first byte of a TCP frame   *)
(* (0x01, 0x02, anything else); size is the payload's length; decodes tells *)
(* whether DeserializeMessage accepts the payload, and msg is the message   *)
(* it returns then.                                                        *)
FrameSizes == {MaxMessageSize, MaxMessageSize + 1, 2 * MaxMessageSize + 1}
InboundTypes == {"message", "image", "ping", "pong", "status"}
ClientSenders == Users \cup {""}
(* The groups of the group store and their members (table group_members).  *)
Groups == {"g1"}
MembersOf(g) == Users

ClientMessages ==
    [type : InboundTypes, sender : ClientSenders, rcpt : Users \cup Groups \cup {""},
     is_group : BOOLEAN, conv : {"", "c1"}, timestamp : {0, MaxClock}]

FrameTags(s) ==
    IF cfg.slots[s].ctype = ConnectionTypeTCP
    THEN {ProtocolTypeJSON, ProtocolTypeProtobuf, "other"}
    ELSE {ProtocolTypeJSON, ProtocolTypeProtobuf}

Frames(s) ==
    [tag : FrameTags(s), size : FrameSizes, decodes : BOOLEAN, msg : ClientMessages]

(* A message the server builds for the user: the pong and the error.        *)
ServerMsg(t, to, ts) ==
    [type |-> t, sender |-> "server", rcpt |-> to, is_group |-> FALSE, conv |-> "",
     timestamp |-> ts]

(* A stamp that keeps the sender the client supplied.                      *)
StampTimeOnly(u, m, t) ==
    [m EXCEPT !.timestamp = IF @ = 0 THEN t ELSE @]

(* message.SenderID = userID; a zero Timestamp becomes time.Now().Unix().   *)
Stamp(u, m, t) ==
    [m EXCEPT !.sender = u, !.timestamp = IF @ = 0 THEN t ELSE @]

(* What a frame led to: whether its payload was deserialized, the message   *)
(* given to msgHandler, the messages given to the connection's own          *)
(* SendMessage, to the manager's SendMessage, to the database and to        *)
(* BroadcastStatus, whether the read loop ended (and closed the             *)
(* connection), and whether the loop went on in the middle of a frame.      *)
Dropped ==
    [decoded |-> FALSE, handed |-> <<>>, replies |-> <<>>, routed |-> <<>>,
     saved |-> <<>>, status |-> <<>>, closed |-> FALSE, desync |-> FALSE]

(* MessageService.SaveMessage: nothing for ping and pong; a private message *)
(* needs a recipient unless it is a status message.                        *)
SaveInbound(m, dbOK) ==
    IF m.type \in {"ping", "pong"} THEN [res |-> "ok", rows |-> <<>>]
    ELSE IF ~m.is_group /\ m.rcpt = "" /\ m.type # "status"
         THEN [res |-> "err", rows |-> <<>>]
    ELSE IF dbOK THEN [res |-> "ok", rows |-> <<m>>]
    ELSE [res |-> "err", rows |-> <<>>]

(* handleEnhancedMessage(connMgr, messageService, userID, message)         *)
handleEnhancedMessage(o, u, msg, t, dbOK) ==
    LET m == Stamp(u, msg, t) IN
    IF m.rcpt = "" /\ ~m.is_group /\ m.type \notin {"ping", "pong", "status"}
    THEN [o EXCEPT !.routed = <<ServerMsg("error", u, t)>>]
    ELSE IF m.type = "ping" THEN [o EXCEPT !.routed = <<ServerMsg("pong", u, t)>>]
    ELSE IF m.type = "pong" THEN o
    ELSE IF m.type = "status" THEN [o EXCEPT !.status = <<m>>]
    ELSE IF m.conv = "" /\ m.rcpt = "" THEN o
    ELSE LET c == [m EXCEPT !.conv = IF @ = "" THEN "uuid" ELSE @]
             w == SaveInbound(c, dbOK)
         IN IF w.res = "ok"
            THEN [o EXCEPT !.saved = w.rows, !.routed = <<c>>]
            ELSE o

(* StartReading, from the deserialized message on: the same lines in the    *)
(* WebSocket and in the TCP connection.                                    *)
ReadMessage(u, msg, t, dbOK) ==
    LET m0 == Stamp(u, msg, t)
        m == [m0 EXCEPT !.conv = IF @ = "" /\ m0.type = "message" /\ m0.rcpt # ""
                                 THEN "uuid" ELSE @]
        o == [Dropped EXCEPT !.decoded = TRUE]
    IN IF m.type = "ping" THEN [o EXCEPT !.replies = <<ServerMsg("pong", "", t)>>]
       ELSE IF m.rcpt = "" /\ m.type # "status"
            THEN IF m.type = "message"
                 THEN [o EXCEPT !.replies = <<ServerMsg("error", u, t)>>]
                 ELSE o
       ELSE handleEnhancedMessage([o EXCEPT !.handed = <<m>>], u, m, t, dbOK)

(* EnhancedWebSocketConnection.StartReading, one turn: ReadMessage fails    *)
(* beyond the read limit and the loop ends; a payload that does not         *)
(* deserialize is logged.                                                  *)
WebSocketRead(u, f, t, dbOK) ==
    IF f.size > MaxMessageSize * 2 THEN [Dropped EXCEPT !.closed = TRUE]
    ELSE IF f.tag \notin {ProtocolTypeJSON, ProtocolTypeProtobuf} THEN Dropped
    ELSE IF ~f.decodes THEN Dropped
    ELSE ReadMessage(u, f.msg, t, dbOK)

(* EnhancedTCPConnection.StartReading, one turn: an unknown protocol byte   *)
(* and a length beyond MaxMessageSize are logged and the loop goes on with  *)
(* the frame's remaining bytes unread.                                     *)
TCPRead(u, f, t, dbOK) ==
    IF f.tag \notin {ProtocolTypeJSON, ProtocolTypeProtobuf}
    THEN [Dropped EXCEPT !.desync = TRUE]
    ELSE IF f.size > MaxMessageSize THEN [Dropped EXCEPT !.desync = TRUE]
    ELSE IF ~f.decodes THEN Dropped
    ELSE ReadMessage(u, f.msg, t, dbOK)

StartReadingTurn(s, f, t, dbOK) ==
    IF cfg.slots[s].ctype = ConnectionTypeTCP
    THEN TCPRead(userOf(s), f, t, dbOK)
    ELSE WebSocketRead(userOf(s), f, t, dbOK)

(* The read loop of a registered connection takes the client's next frame.  *)
ReadFrame(s) ==
    /\ hpc[s] = "run"
    /\ ~done[s]
    /\ Quiet
    /\ rx.stage = "idle"
    /\ \E f \in Frames(s) : \E dbOK \in BOOLEAN :
          LET o == StartReadingTurn(s, f, now, dbOK)
          IN /\ rx' = [stage |-> "read", slot |-> s, frame |-> f, at |-> now,
                      dbOK |-> dbOK, res |-> o]
             /\ done' = [done EXCEPT ![s] = o.closed]
    /\ UNCHANGED <<cfg, up, now, codec, conn, auth, timer, busy, hpc, send, tableVars, redisVars,
                   msgVars, ghostVars>>

(* The read loop goes back to reading (continue), or has returned.         *)
ReadNext ==
    /\ rx.stage = "read"
    /\ rx' = NoFrame
    /\ UNCHANGED <<cfg, up, now, codec, conn, auth, timer, busy, sessVars, tableVars, redisVars,
                   msgVars, ghostVars>>

(* One node in memory-only mode with a WebSocket client of u1 and a TCP     *)
(* client of u2, each sending frames of its choice.                        *)
InboundSlots ==
    [a |-> [user |-> "u1", ctype |-> ConnectionTypeWebSocket, node |-> "n1"],
     b |-> [user |-> "u2", ctype |-> ConnectionTypeTCP, node |-> "n1"]]

InboundCfg ==
    [mgr |-> "optimized", slots |-> InboundSlots, redis |-> [n \in Nodes |-> FALSE],
     friends |-> [u \in Users |-> {}], rcpts |-> {},
     flaky |-> FALSE, crash |-> FALSE, fine |-> FALSE,
     cap |-> MaxMsgs, stamps |-> {0},
     qcap |-> QueueCap, scap |-> SendCap]

InitInbound == InitWith(InboundCfg)

NextInbound ==
    \/ \E s \in Slots : Connect(s)
    \/ \E s \in Slots : UnregisterRemove(s)
    \/ \E s \in Slots : UnregisterStatus(s)
    \/ \E s \in Slots : RegisterConnection(s)
    \/ \E s \in Slots : RegisterUser(s)
    \/ \E s \in Slots : ReadFrame(s)
    \/ ReadNext
    \/ ClockTick

SpecInbound == InitInbound /\ [][NextInbound]_vars

(* What the rest of the server gets from a frame.                          *)
Effects(o) == [routed |-> o.routed, saved |-> o.saved, status |-> o.status]

(* C21: the sender of every message a session hands to the router is the    *)
(* session's authenticated user, and what the server does with a frame does *)
(* not depend on the sender the client wrote into it: the same frame with   *)
(* any other client-supplied sender leads to the same messages.            *)
C21_SenderIsSessionUser ==
    rx.stage = "read" =>
        LET u == userOf(rx.slot) IN
        /\ \A k \in 1..Len(rx.res.handed) : rx.res.handed[k].sender = u
        /\ \A k \in 1..Len(rx.res.routed) :
              \/ rx.res.routed[k].sender = u
              \/ rx.res.routed[k] = ServerMsg(rx.res.routed[k].type, u, rx.at)
        /\ \A snd \in ClientSenders :
              StartReadingTurn(rx.slot, [rx.frame EXCEPT !.msg.sender = snd], rx.at, rx.dbOK)
                  = rx.res

(* A client wrote another user's name into a message that reached the       *)
(* router.                                                                 *)
C21_Witness ==
    /\ rx.stage = "read"
    /\ rx.frame.msg.sender \in Users \ {userOf(rx.slot)}
    /\ rx.res.routed # <<>>
    /\ rx.res.routed[1].type = "message"


(***************************************************************************)
(* Authentication                                                          *)
(***************************************************************************)
Tokens ==
    {NoToken, [user |-> "", state |-> "malformed"]}
        \cup [user : Users, state : {"valid", "expired", "forged"}]

(* What a client presents: the token query parameter of /api/ws ("query"),  *)
(* or the first line on /api/ws-tcp and on the TCP port: "AUTH {token}"     *)
(* ("auth"), some other line ("other"), or nothing until the read deadline  *)
(* or the end of the stream ("silent").                                    *)
Credentials(s) ==
    IF cfg.slots[s].ctype = ConnectionTypeWebSocket
    THEN [line : {"query"}, token : Tokens]
    ELSE [line : {"auth", "other", "silent"}, token : Tokens]

(* A ValidateToken that does not look at the expiry.                       *)
ValidateTokenNoExpiry(tok) ==
    IF tok.state \in {"valid", "expired"} THEN tok.user ELSE None

(* middleware.ValidateToken: the user_id claim of a token that parses, is   *)
(* signed with the server's secret and has not expired; an error otherwise. *)
ValidateToken(tok) ==
    IF tok.state = "valid" THEN tok.user ELSE None

(* EnhancedWebSocketHandler, tcpStyle = false: the token parameter is       *)
(* checked before the upgrade.                                             *)
authenticateQuery(cred) ==
    IF cred.token.state = "empty"
    THEN [user |-> None, reply |-> "400 token is required", closed |-> TRUE]
    ELSE IF ValidateToken(cred.token) = None
    THEN [user |-> None, reply |-> "401 invalid token", closed |-> TRUE]
    ELSE [user |-> ValidateToken(cred.token), reply |-> "upgrade", closed |-> FALSE]

(* authenticateTCPStyleWS / authenticateTCPConn; the caller closes the      *)
(* connection on an error.                                                 *)
authenticateTCPConn(cred) ==
    IF cred.line = "silent"
    THEN [user |-> None, reply |-> None, closed |-> TRUE]
    ELSE IF cred.line # "auth" \/ cred.token.state = "empty"
    THEN [user |-> None, reply |-> "ERROR Invalid authentication format", closed |-> TRUE]
    ELSE IF ValidateToken(cred.token) = None
    THEN [user |-> None, reply |-> "ERROR Authentication failed", closed |-> TRUE]
    ELSE [user |-> ValidateToken(cred.token), reply |-> "OK", closed |-> FALSE]

(* The slot of the session that a client of s's transport and node gets     *)
(* when it is authenticated as u.                                          *)
SessionOf(s, u) ==
    {x \in Slots : /\ userOf(x) = u
                   /\ cfg.slots[x].ctype = cfg.slots[s].ctype
                   /\ nodeOf(x) = nodeOf(s)
                   /\ (userOf(s) = u => x = s)}

(* A client connects and presents its credential: EnhancedWebSocketHandler  *)
(* / EnhancedTCPServer.handleConnection up to the call of                   *)
(* handleEnhancedAuthenticatedConnection.                                  *)
Authenticate(s) ==
    /\ hpc[s] = "idle"
    /\ up[nodeOf(s)]
    /\ Quiet
    /\ \E cred \in Credentials(s) :
          LET r == IF cred.line = "query" THEN authenticateQuery(cred)
                   ELSE authenticateTCPConn(cred)
              a == [cred |-> cred, user |-> r.user, reply |-> r.reply, closed |-> r.closed]
          IN IF r.user = None
             THEN /\ auth' = [auth EXCEPT ![s] = a]
                  /\ UNCHANGED <<hpc, busy>>
             ELSE \E x \in SessionOf(s, r.user) :
                     /\ hpc[x] = "idle"
                     /\ auth' = [auth EXCEPT ![x] = a]
                     /\ Step(x, IF IsBinary(x) THEN "arbA" ELSE "regA")
    /\ UNCHANGED <<cfg, up, now, codec, conn, rx, timer, send, done, tableVars, redisVars,
                   msgVars, ghostVars>>

(* One node in memory-only mode; u1 and u2 each with a browser, u1 with a   *)
(* TCP client and u2 with a tcp_ws client, every client presenting the      *)
(* credential of its choice.                                               *)
AuthSlots ==
    [a |-> [user |-> "u1", ctype |-> ConnectionTypeWebSocket, node |-> "n1"],
     b |-> [user |-> "u2", ctype |-> ConnectionTypeWebSocket, node |-> "n1"],
     c |-> [user |-> "u1", ctype |-> ConnectionTypeTCP, node |-> "n1"],
     d |-> [user |-> "u2", ctype |-> ConnectionTypeTCPWS, node |-> "n1"]]

AuthCfg ==
    [mgr |-> "optimized", slots |-> AuthSlots, redis |-> [n \in Nodes |-> FALSE],
     friends |-> [u \in Users |-> {}], rcpts |-> {},
     flaky |-> FALSE, crash |-> FALSE, fine |-> FALSE,
     cap |-> MaxMsgs, stamps |-> {0},
     qcap |-> QueueCap, scap |-> SendCap]

InitAuth == InitWith(AuthCfg)

NextAuth ==
    \/ \E s \in Slots : Authenticate(s)
    \/ \E s \in Slots : UnregisterRemove(s)
    \/ \E s \in Slots : UnregisterStatus(s)
    \/ \E s \in Slots : RegisterConnection(s)
    \/ \E s \in Slots : RegisterUser(s)

SpecAuth == InitAuth /\ [][NextAuth]_vars

(* The client of s presented something that is not a valid token.          *)
Refused(s) ==
    /\ auth[s].cred.line # "none"
    /\ \/ auth[s].cred.line = "other"
       \/ auth[s].cred.token.state # "valid"

(* C22: a session exists or is registered only for a client whose token the *)
(* verifier accepted, and its user is the one the verifier returned; a      *)
(* client that presented a missing, malformed or rejected credential got an *)
(* error reply, its connection was closed and nothing was registered for    *)
(* it.                                                                     *)
C22_OnlyVerifiedSessions ==
    \A s \in Slots :
        /\ (hpc[s] # "idle" \/ s \in connections[nodeOf(s)]) =>
              /\ auth[s].cred.line \in {"query", "auth"}
              /\ auth[s].cred.token.state = "valid"
              /\ auth[s].cred.token.user = userOf(s)
              /\ auth[s].user = userOf(s)
        /\ (Refused(s) /\ auth[s].cred.line # "silent") =>
              /\ auth[s].reply \notin {None, "OK", "upgrade"}
              /\ auth[s].closed
              /\ hpc[s] = "idle"
              /\ s \notin connections[nodeOf(s)]
        /\ auth[s].cred.line = "silent" =>
              /\ auth[s].closed
              /\ hpc[s] = "idle"
              /\ s \notin connections[nodeOf(s)]

(* One client was turned away with an expired token while another one,      *)
(* with a valid token, is registered.                                      *)
C22_Witness ==
    \E s, x \in Slots :
        /\ auth[s].cred.token.state = "expired"
        /\ auth[s].cred.line \in {"query", "auth"}
        /\ auth[s].closed
        /\ x \in connections[nodeOf(x)]
        /\ hpc[x] = "run"


(* The read loop deserialized a frame of the client of rx.slot.            *)
Decoded == rx.stage = "read" /\ rx.res.decoded

(* C23: every message of a type other than ping, pong and status that has   *)
(* no recipient and is not a group message is answered with an error        *)
(* message on the sender's own connection, and is neither given to the      *)
(* manager's SendMessage nor saved.                                        *)
C23_MissingRecipientGetsError ==
    (/\ Decoded
     /\ rx.frame.msg.type \notin {"ping", "pong", "status"}
     /\ rx.frame.msg.rcpt = ""
     /\ ~rx.frame.msg.is_group) =>
        /\ \E k \in 1..Len(rx.res.replies) :
              /\ rx.res.replies[k].type = "error"
              /\ rx.res.replies[k].rcpt = userOf(rx.slot)
        /\ rx.res.handed = <<>>
        /\ rx.res.routed = <<>>
        /\ rx.res.saved = <<>>


(* C24: for a group message (is_group with the group's id as recipient)     *)
(* that the server accepted from a session, one copy is given to the        *)
(* manager's SendMessage for every member of the group except the sender.   *)
C24_GroupFanOut ==
    (/\ Decoded
     /\ rx.frame.msg.is_group
     /\ rx.frame.msg.rcpt \in Groups
     /\ rx.frame.msg.type \notin {"ping", "pong", "status"}
     /\ rx.res.saved # <<>>) =>
        \A u \in MembersOf(rx.frame.msg.rcpt) \ {userOf(rx.slot)} :
            \E k \in 1..Len(rx.res.routed) :
                /\ rx.res.routed[k].rcpt = u
                /\ rx.res.routed[k].sender = userOf(rx.slot)


(* C25: no message of type ping, pong or status has a row in the history    *)
(* store, whether written by SaveMessage or by the insert of                *)
(* storeOfflineMessage.                                                    *)
C25_ControlNeverPersisted ==
    \A i \in 1..Len(msgs) :
        msgs[i].type \in {"ping", "pong", "status"} =>
            /\ db[i] = None
            /\ \A k \in 1..Len(history) : history[k] # i


(* C26: an inbound frame longer than the maximum frame size of its          *)
(* transport (MaxMessageSize for the TCP length field, the read limit       *)
(* MaxMessageSize * 2 of a WebSocket connection) is rejected, that is never *)
(* decoded and never routed; afterwards the session is still active if it   *)
(* is a WebSocket session and closed if it is a TCP session.               *)
C26_OversizeRejected ==
    LET tcp == cfg.slots[rx.slot].ctype = ConnectionTypeTCP
        limit == IF tcp THEN MaxMessageSize ELSE MaxMessageSize * 2
    IN (rx.stage = "read" /\ rx.frame.size > limit) =>
           /\ ~rx.res.decoded
           /\ rx.res.routed = <<>>
           /\ done[rx.slot] = tcp

(* C27: every inbound frame that carries an unknown protocol tag or fails   *)
(* to decode gets a reply of type error on the same session, and nothing    *)
(* of it is handed to the router.                                          *)
C27_BadFrameGetsError ==
    LET bad == \/ rx.frame.tag \notin {ProtocolTypeJSON, ProtocolTypeProtobuf}
               \/ ~rx.frame.decodes
    IN (rx.stage = "read" /\ ~rx.res.closed /\ bad) =>
           /\ \E k \in 1..Len(rx.res.replies) : rx.res.replies[k].type = "error"
           /\ rx.res.routed = <<>>
           /\ rx.res.handed = <<>>


(***************************************************************************)
(* Heartbeat: the read deadline and the ping ticker of a connection        *)
(***************************************************************************)
(* The step of the timers in seconds: PingPeriod and PongWait are multiples. *)
ClockStep == 6

(* The connection's two loops run.                                         *)
Running(s) == hpc[s] = "run" /\ ~done[s]

Less(x) == IF x > ClockStep THEN x - ClockStep ELSE 0

(* Time passes for every running connection, up to the next timer that is   *)
(* due.                                                                    *)
Elapse ==
    /\ Quiet
    /\ \E s \in Slots : Running(s)
    /\ \A s \in Slots : Running(s) => timer[s].read > 0 /\ timer[s].ping > 0
    /\ timer' = [s \in Slots |->
                   IF Running(s)
                   THEN [timer[s] EXCEPT !.read = Less(@), !.ping = Less(@),
                            !.idle = IF @ + ClockStep < PongWait
                                     THEN @ + ClockStep ELSE PongWait]
                   ELSE timer[s]]
    /\ UNCHANGED <<cfg, up, now, codec, conn, rx, auth, busy, sessVars, tableVars,
                   redisVars, msgVars, ghostVars>>

(* StartWriting, case <-ticker.C: a message of type ping is written to the  *)
(* client; the ticker fires again after PingPeriod.                        *)
SendPing(s) ==
    /\ Running(s)
    /\ Quiet
    /\ timer[s].ping = 0
    /\ timer' = [timer EXCEPT ![s].ping = PingPeriod, ![s].owed = TRUE]
    /\ UNCHANGED <<cfg, up, now, codec, conn, rx, auth, busy, sessVars, tableVars,
                   redisVars, msgVars, ghostVars>>

(* What a client can send: a message of type pong for a ping it got, any    *)
(* other frame, and on a WebSocket a pong control frame.                    *)
ClientFrames(s) ==
    {"frame"} \cup (IF timer[s].owed THEN {"pong"} ELSE {})
              \cup (IF cfg.slots[s].ctype = ConnectionTypeTCP THEN {} ELSE {"control"})

(* StartReading gets a frame from the client before the deadline. The TCP   *)
(* loop sets the deadline again at its next turn; the WebSocket loop never  *)
(* does, only its pong handler (run by gorilla for a pong control frame).   *)
NextDeadline(ctype, k, left) ==
    IF ctype = ConnectionTypeTCP \/ k = "control" THEN ReadWait(ctype) ELSE left

ClientSends(s) ==
    /\ Running(s)
    /\ Quiet
    /\ timer[s].read > 0
    /\ \E k \in ClientFrames(s) :
          timer' = [timer EXCEPT
                      ![s].read = NextDeadline(cfg.slots[s].ctype, k, @),
                      ![s].owed = IF k = "pong" THEN FALSE ELSE @,
                      ![s].idle = 0]
    /\ UNCHANGED <<cfg, up, now, codec, conn, rx, auth, busy, sessVars, tableVars,
                   redisVars, msgVars, ghostVars>>

(* The read deadline passes. EnhancedWebSocketConnection: ReadMessage       *)
(* returns the error, the loop breaks and the deferred Close closes done.   *)
(* EnhancedTCPConnection: a timeout makes the loop continue, and the next   *)
(* turn sets the deadline again.                                           *)
ReadDeadline(s) ==
    /\ Running(s)
    /\ Quiet
    /\ timer[s].read = 0
    /\ IF cfg.slots[s].ctype = ConnectionTypeTCP
       THEN /\ timer' = [timer EXCEPT ![s].read = ReadWait(ConnectionTypeTCP)]
            /\ UNCHANGED done
       ELSE /\ done' = [done EXCEPT ![s] = TRUE]
            /\ UNCHANGED timer
    /\ UNCHANGED <<cfg, up, now, codec, conn, rx, auth, busy, hpc, send, tableVars,
                   redisVars, msgVars, ghostVars>>

(* One node in memory-only mode with a WebSocket client of u1 and a TCP     *)
(* client of u2; the clients send what and when they like, or nothing.      *)
HeartbeatCfg ==
    [mgr |-> "optimized", slots |-> InboundSlots, redis |-> [n \in Nodes |-> FALSE],
     friends |-> [u \in Users |-> {}], rcpts |-> {},
     flaky |-> FALSE, crash |-> FALSE, fine |-> FALSE,
     cap |-> MaxMsgs, stamps |-> {0},
     qcap |-> QueueCap, scap |-> SendCap]

InitHeartbeat == InitWith(HeartbeatCfg)

NextHeartbeat ==
    \/ \E s \in Slots : Connect(s)
    \/ \E s \in Slots : ClientSends(s)
    \/ \E s \in Slots : UnregisterRemove(s)
    \/ \E s \in Slots : UnregisterStatus(s)
    \/ \E s \in Slots : RegisterConnection(s)
    \/ \E s \in Slots : RegisterUser(s)
    \/ \E s \in Slots : HandlerWakes(s)
    \/ \E s \in Slots : SendPing(s)
    \/ \E s \in Slots : ReadDeadline(s)
    \/ Elapse

SpecHeartbeat == InitHeartbeat /\ [][NextHeartbeat]_vars

(* The same node with clients that never send anything. The goroutines of   *)
(* the server are scheduled and its timers fire.                           *)
NextSilent ==
    \/ \E s \in Slots : Connect(s)
    \/ \E s \in Slots : UnregisterRemove(s)
    \/ \E s \in Slots : UnregisterStatus(s)
    \/ \E s \in Slots : RegisterConnection(s)
    \/ \E s \in Slots : RegisterUser(s)
    \/ \E s \in Slots : HandlerWakes(s)
    \/ \E s \in Slots : SendPing(s)
    \/ \E s \in Slots : ReadDeadline(s)
    \/ Elapse

HandlerRuns(s) ==
    \/ RegisterConnection(s)
    \/ RegisterUser(s)
    \/ HandlerWakes(s)
    \/ UnregisterRemove(s)
    \/ UnregisterStatus(s)

HeartbeatFair ==
    /\ WF_vars(Elapse)
    /\ \A s \in {"a", "b"} :
          /\ WF_vars(HandlerRuns(s))
          /\ WF_vars(SendPing(s))
          /\ WF_vars(ReadDeadline(s))

SpecSilent == InitHeartbeat /\ [][NextSilent]_vars /\ HeartbeatFair

(* C28: a session whose client answers every ping with a pong, or keeps     *)
(* sending frames, is never ended by the heartbeat timeout: when the read   *)
(* deadline ends a session, a ping of the server is unanswered and the      *)
(* client has sent nothing for PongWait or longer.                         *)
C28_AnsweringClientStays ==
    [][\A s \in Slots :
          (Running(s) /\ timer[s].read = 0 /\ done'[s]) =>
              /\ timer[s].owed
              /\ timer[s].idle >= PongWait]_vars

(* The session of slot s is over: its handler has returned, the connection  *)
(* is out of the table and the status manager holds the user offline.       *)
Gone(s) ==
    /\ hpc[s] = "fin"
    /\ s \notin connections[nodeOf(s)]
    /\ userOf(s) \notin online[nodeOf(s)]

(* C29: a session whose client sends nothing eventually reaches the         *)
(* terminal state, is unregistered and its user is offline, on the          *)
(* WebSocket transport and on TCP.                                         *)
C29_SilentClientTimesOut ==
    \A s \in {"a", "b"} : (hpc[s] = "run") ~> Gone(s)

(* C30: the same message is never published more than once on the          *)
(* server_msg channels, and a node that got a message from its channel      *)
(* never publishes it again: a step that publishes message i publishes it   *)
(* once, i was never published before and no listener has taken it; and a   *)
(* step in which a listener takes a payload off its channel publishes       *)
(* nothing.                                                                *)
C30_PublishedOnce ==
    [][/\ \A i \in MsgIds :
             published'[i] # published[i] =>
                 /\ published[i] = <<>>
                 /\ Len(published'[i]) = 1
                 /\ viaBus[i] = {}
       /\ (\E n \in Nodes : bus[n] # <<>> /\ bus'[n] = Tail(bus[n]))
             => published' = published]_vars

C30_Witness ==
    \E i \in Created : \E n \in Nodes :
        /\ published[i] = <<n>>
        /\ n \in viaBus[i]
        /\ "orphan" \in events[i]
        /\ \A k \in Nodes : \A j \in 1..Len(queue[k]) : queue[k][j] # i

(* The message has left the handler: SendMessage was called for it, or it   *)
(* is in a queue, on a channel, on a session or in the offline store.       *)
Routed(i) ==
    \/ accepted[i] # None
    \/ \E n \in Nodes : i \in Range(queue[n]) \cup Range(bus[n])
    \/ published[i] # <<>>
    \/ sentTo[i] # {}
    \/ viaBus[i] # {}
    \/ outcome[i] # {}

(* C31: a chat message (type other than ping, pong, status) is enqueued on  *)
(* a session, published to a node or written to the offline store only      *)
(* after SaveMessage has written its row; a message whose SaveMessage       *)
(* failed is not routed at all.                                            *)
C31_SavedBeforeRouted ==
    \A i \in Created :
        (msgs[i].type \notin {"ping", "pong", "status"} /\ Routed(i))
            => db[i] # None /\ i \in Range(history)

C31_Witness ==
    \E i, j \in Created :
        /\ msgs[i].type = "text" /\ db[i] = None /\ ~Routed(i)
        /\ msgs[j].type = "text" /\ db[j] = "sent" /\ sentTo[j] # {}

(* C32: the end of a session triggers exactly one Unregister for it: when   *)
(* the handler of session s makes its deferred UnregisterConnection call, s *)
(* is still in the table (nobody has unregistered it before), and the call  *)
(* removes s and no other session, in particular none registered later.    *)
C32_OneUnregisterPerSession ==
    [][\A s \in Slots :
          (hpc[s] = "unrA" /\ hpc'[s] # "unrA" /\ up'[nodeOf(s)]) =>
              /\ s \in connections[nodeOf(s)]
              /\ connections[nodeOf(s)] \ connections'[nodeOf(s)] = {s}]_vars

(* One node under OptimizedConnectionManager with Redis: u1 writes to u2,   *)
(* who has a WebSocket and a TCP client.                                   *)
PriorityCfg ==
    [mgr |-> "optimized", slots |-> StoreSlots, redis |-> [n \in Nodes |-> TRUE],
     friends |-> [u \in Users |-> {}], rcpts |-> {"u2"},
     flaky |-> FALSE, crash |-> FALSE, fine |-> FALSE,
     cap |-> MaxMsgs, stamps |-> {0},
     qcap |-> QueueCap, scap |-> SendCap]

InitPriority == InitWith(PriorityCfg)

NextPriority ==
    \/ \E s \in Slots : Connect(s)
    \/ \E s \in Slots : RegisterConnection(s)
    \/ \E s \in Slots : RegisterUser(s)
    \/ \E s \in Slots : ReadLoopExit(s)
    \/ \E s \in Slots : HandlerWakes(s)
    \/ \E s \in Slots : UnregisterRemove(s)
    \/ \E s \in Slots : UnregisterCheck(s)
    \/ \E s \in Slots : UnregisterUser(s)
    \/ \E s \in Slots : UnregisterStatus(s)
    \/ \E s \in Slots : StartWriting(s)
    \/ \E s \in Slots : \E to \in Users : HandleChatMessage(s, to)
    \/ \E n \in Nodes : OptProcessMessage(n)

SpecPriority == InitPriority /\ [][NextPriority]_vars

(* The rank of a session's transport: tcp before tcp_ws before websocket.   *)
Rank(x) ==
    IF cfg.slots[x].ctype = ConnectionTypeTCP THEN 3
    ELSE IF cfg.slots[x].ctype = ConnectionTypeTCPWS THEN 2
    ELSE 1

(* C33: the router tries the recipient's local sessions in the order tcp,   *)
(* tcp_ws, websocket and stops at the first success: the session a message  *)
(* is enqueued on is the only one, no session of higher rank could have     *)
(* taken the message, and every closed session of higher rank has been      *)
(* removed from the table by that step.                                    *)
C33_PriorityOrder ==
    [][\A i \in MsgIds : \A x \in Slots :
          (x \in sentTo'[i] /\ x \notin sentTo[i]) =>
              /\ sentTo'[i] = {x}
              /\ \A y \in UserConns(nodeOf(x), userOf(x)) :
                    Rank(y) > Rank(x) =>
                        /\ ConnSendMessage(y) # "ok"
                        /\ ConnSendMessage(y) = "closed"
                               => y \notin connections'[nodeOf(x)]]_vars
(* The registry entry of u names a node other than n.                      *)
OwnedElsewhere(u, n) == registry[u] \in Nodes \ {n}

(* C34: UnregisterUser and the heartbeat of node n touch a user's registry  *)
(* entry only if the entry names n: an entry another node wrote is neither  *)
(* deleted nor has its expiry refreshed by n.                              *)
C34_OnlyOwnerTouchesEntry ==
    [][/\ \A s \in Slots :
             (/\ hpc[s] \in {"arbC", "unrC"}
              /\ hpc'[s] \notin {"arbC", "unrC"}
              /\ OwnedElsewhere(userOf(s), nodeOf(s)))
                 => /\ registry'[userOf(s)] = registry[userOf(s)]
                    /\ ttl'[userOf(s)] = ttl[userOf(s)]
       /\ \A n \in Nodes : \A u \in Users :
             (n \notin beat /\ n \in beat' /\ OwnedElsewhere(u, n))
                 => ttl'[u] = ttl[u]]_vars
(* C35: a SendMessage that ends while or after the connection is being      *)
(* closed returns success or the closed error; it never sends on the send   *)
(* channel once Close has closed it.                                       *)
C35_SendVersusClose ==
    [][\A s \in Slots :
          (SendEnds /\ done[s]) =>
              /\ conn'.panic # "send on closed channel"
              /\ conn'.ret \in {"ok", "closed"}]_vars
(***************************************************************************)
(* The byte stream of a TCP connection                                     *)
(***************************************************************************)
(* The longest payload of the model, in chunks a read can return, and the   *)
(* most chunks that wait unread in the connection's stream.                 *)
MaxPayload == 2
MaxStream == 5

(* A frame as the client writes it: the protocol flag (0x01, 0x02 or any    *)
(* other byte), the payload's length in chunks, and whether the length      *)
(* field is beyond MaxMessageSize.                                         *)
TcpFrames ==
    [tag : {ProtocolTypeJSON, ProtocolTypeProtobuf, "other"}, n : 1..MaxPayload,
     over : BOOLEAN]

(* The frame on the wire: the flag byte, the length field, the payload.     *)
Wire(f) ==
    <<[role |-> "tag", tag |-> f.tag, n |-> f.n, over |-> f.over],
      [role |-> "len", tag |-> f.tag, n |-> f.n, over |-> f.over]>>
    \o [k \in 1..f.n |-> [role |-> "pay", tag |-> f.tag, n |-> f.n, over |-> f.over]]

(* What the read loop has before it: the unread part of the stream.        *)
Unread == IF rx.stage = "stream" THEN rx.cells ELSE <<>>

(* The client writes a frame.                                              *)
ClientWrites(s) ==
    /\ cfg.slots[s].ctype = ConnectionTypeTCP
    /\ Running(s)
    /\ Quiet
    /\ rx.stage \in {"idle", "stream"}
    /\ \E f \in TcpFrames :
          /\ Len(Unread) + Len(Wire(f)) <= MaxStream
          /\ rx' = [stage |-> "stream", cells |-> Unread \o Wire(f),
                    flagAt |-> IF rx.stage = "stream" THEN rx.flagAt ELSE "tag"]
    /\ UNCHANGED <<cfg, up, now, codec, conn, auth, timer, busy, sessVars, tableVars,
                   redisVars, msgVars, ghostVars>>

(* What the loop takes a part of the stream for: a flag byte and a length   *)
(* field read where the client wrote them have the client's values, bytes   *)
(* read from anywhere else can have any.                                   *)
FlagsOf(c) ==
    IF c.role = "tag" THEN {c.tag}
    ELSE {ProtocolTypeJSON, ProtocolTypeProtobuf, "other"}

LengthsOf(c) ==
    IF c.role = "len" THEN {[n |-> c.n, over |-> c.over]}
    ELSE [n : 1..MaxPayload, over : BOOLEAN]

RECURSIVE Drop(_, _)
Drop(q, k) == IF k = 0 \/ q = <<>> THEN q ELSE Drop(Tail(q), k - 1)

(* EnhancedTCPConnection.StartReading, one turn with the frame's header in  *)
(* the stream: ReadByte takes the flag; an unknown flag: continue.          *)
(* binary.Read takes the length; beyond MaxMessageSize: continue.           *)
(* c.reader.Read(data) takes what one read of the connection returns, at    *)
(* most the length; then the payload is deserialized and handled.          *)
TCPReadTurn(s) ==
    /\ cfg.slots[s].ctype = ConnectionTypeTCP
    /\ Running(s)
    /\ Quiet
    /\ rx.stage = "stream"
    /\ rx.cells # <<>>
    /\ \E flag \in FlagsOf(rx.cells[1]) :
          \/ /\ flag = "other"
             /\ rx' = [rx EXCEPT !.flagAt = rx.cells[1].role, !.cells = Tail(rx.cells)]
          \/ /\ flag # "other"
             /\ Len(rx.cells) >= 2
             /\ \E len \in LengthsOf(rx.cells[2]) :
                   LET rest == Drop(rx.cells, 2) IN
                   IF len.over
                   THEN rx' = [rx EXCEPT !.flagAt = rx.cells[1].role, !.cells = rest]
                   ELSE \E k \in 1..len.n :
                           /\ k <= Len(rest)
                           /\ rx' = [rx EXCEPT !.flagAt = rx.cells[1].role,
                                               !.cells = Drop(rest, k)]
    /\ UNCHANGED <<cfg, up, now, codec, conn, auth, timer, busy, sessVars, tableVars,
                   redisVars, msgVars, ghostVars>>

(* One node in memory-only mode with a TCP client of u2 that writes frames. *)
InitFraming == InitWith(InboundCfg)

NextFraming ==
    \/ \E s \in Slots : Connect(s)
    \/ \E s \in Slots : UnregisterRemove(s)
    \/ \E s \in Slots : UnregisterStatus(s)
    \/ \E s \in Slots : RegisterConnection(s)
    \/ \E s \in Slots : RegisterUser(s)
    \/ \E s \in Slots : ClientWrites(s)
    \/ \E s \in Slots : TCPReadTurn(s)

SpecFraming == InitFraming /\ [][NextFraming]_vars

(* C36: the TCP read loop stays frame-aligned while the session is open:    *)
(* every byte it takes for a protocol flag is the first byte of a frame     *)
(* the client wrote, after an accepted frame as after a rejected one.       *)
C36_FrameAligned == rx.stage = "stream" => rx.flagAt = "tag"

(***************************************************************************)
(* RedisConnectionManager with Redis: relaying over message_to:{user}      *)
(***************************************************************************)
(* Two nodes under RedisConnectionManager that share Redis: the sender u1   *)
(* on n1, the recipient u2 with a client for each node.                    *)
RelayCfg ==
    [mgr |-> "redis", slots |-> ClusterSlots, redis |-> [n \in Nodes |-> TRUE],
     friends |-> [u \in Users |-> {}], rcpts |-> {"u2"},
     flaky |-> FALSE, crash |-> FALSE, fine |-> FALSE,
     cap |-> MaxMsgs, stamps |-> {0},
     qcap |-> QueueCap, scap |-> SendCap]

InitRelay == InitWith(RelayCfg)

NextRelay ==
    \/ \E s \in Slots : Connect(s)
    \/ \E s \in Slots : RegisterConnection(s)
    \/ \E s \in Slots : RegisterUser(s)
    \/ \E s \in Slots : ReadLoopExit(s)
    \/ \E s \in Slots : HandlerWakes(s)
    \/ \E s \in Slots : UnregisterRemove(s)
    \/ \E s \in Slots : UnregisterStatus(s)
    \/ \E s \in Slots : StartWriting(s)
    \/ \E s \in Slots : \E to \in Users : HandleChatMessage(s, to)
    \/ \E n \in Nodes : RedisProcessMessage(n)
    \/ \E n \in Nodes : startRedisSubscription(n)

SpecRelay == InitRelay /\ [][NextRelay]_vars

(* processMessage of node n has put message i on a connection.              *)
DeliveredBy(n, i) == \E s \in Slots : nodeOf(s) = n /\ s \in sentTo[i]

(* Message i enters the send channel of connection s in this step.          *)
Enqueues(s, i) ==
    /\ Len(send'[s]) = Len(send[s]) + 1
    /\ send'[s][Len(send'[s])] = i

(* C37: a message is published only while its handled_by_local flag is     *)
(* false, local processing sets the flag and the subscriber queues only     *)
(* unhandled messages, so that a node which has delivered a message does    *)
(* not deliver it a second time: no step puts a message on a connection of  *)
(* a node that has already put it on one of its connections.               *)
C37_HandledNotRedelivered ==
    [][\A s \in DOMAIN ClusterSlots : \A i \in 1..MaxMsgs :
          (i <= Len(msgs) /\ DeliveredBy(ClusterSlots[s].node, i)) => ~Enqueues(s, i)]_vars

(***************************************************************************)
(* The offline operations of the two managers                              *)
(***************************************************************************)
(* OptimizedConnectionManager.GetOfflineMessages: return nil, nil.          *)
OptGetOfflineMessages(u) == <<>>

(* OptimizedConnectionManager.MarkOfflineMessagesAsSent: return nil.        *)
OptMarkOfflineMessagesAsSent(d, ids) == d

(* The messages processMessage of node n is about to hand to                *)
(* storeOfflineMessage: the head of the queue, if no connection takes it.   *)
ToStore(n) ==
    IF up[n] /\ queue[n] # <<>> /\ Takers(UserConns(n, msgs[Head(queue[n])].rcpt)) = {}
    THEN {Head(queue[n])} ELSE {}

(* C38: the offline operations of OptimizedConnectionManager behave as      *)
(* those of RedisConnectionManager: for the message a node is about to      *)
(* store, both storeOfflineMessage leave the same table; for the user whose *)
(* replay is about to run, both GetOfflineMessages return the same rows and *)
(* both MarkOfflineMessagesAsSent leave the same table.                    *)
C38_OfflineOpsAgree ==
    \A n \in Nodes :
       /\ \A i \in ToStore(n) :
             OptStoreOfflineMessage(Router, i).db = StoreOfflineMessage(Router, i, TRUE).db
       /\ \A u \in pending[n] :
             /\ OptGetOfflineMessages(u) = GetOfflineMessages(u)
             /\ OptMarkOfflineMessagesAsSent(db, GetOfflineMessages(u))
                  = MarkOfflineMessagesAsSent(db, GetOfflineMessages(u))
(* No RegisterConnection and no UnregisterConnection for user u is in        *)
(* progress on node n: every handler of u there rests.                     *)
NoCallInProgress(n, u) ==
    \A s \in Slots : (userOf(s) = u /\ nodeOf(s) = n) => hpc[s] \in Resting

(* C39: with Redis enabled, whenever no RegisterConnection and no           *)
(* UnregisterConnection for a user is in progress on a node, IsUserLocal     *)
(* holds for the user exactly if the node's table holds a session of the    *)
(* user, however a registration interleaved with the unregistration of      *)
(* another session.                                                        *)
C39_LocalIffInTable ==
    \A n \in Nodes : \A u \in Users :
        (up[n] /\ redisEnabled(n) /\ NoCallInProgress(n, u))
            => (IsUserLocal(n, u) <=> UserConns(n, u) # {})
(* C40: every message processMessage puts on a session has recipient_id      *)
(* equal to the user of that session: a step that appends message i to the  *)
(* send channel of connection s has msgs[i].rcpt = userOf(s).               *)
C40_EnqueuedForOwnUser ==
    [][\A s \in Slots : \A i \in Created :
          Enqueues(s, i) => msgs[i].rcpt = userOf(s)]_vars

(* A message waits on a session of its recipient while a session of another *)
(* user is open in the same node's table and did not get it.                *)
C40_Witness ==
    \E i \in Created : \E s \in sentTo[i] :
        /\ i \in Range(send[s])
        /\ msgs[i].rcpt = userOf(s)
        /\ \E x \in connections[nodeOf(s)] :
              userOf(x) # userOf(s) /\ ~done[x] /\ x \notin sentTo[i]
====
